---- MODULE Spec2Model ----
(***************************************************************************)
(* HelixVault AI agent: the query-session orchestrator (GenomicAgent), the *)
(* variant parser and trait inference engine (SNPAnalyzer) and the wallet  *)
(* encryption layer (WalletCrypto / EncryptedPayload).                     *)
(*                                                                         *)
(* Representation.  A Python str is a sequence of one-character strings;   *)
(* a genome text is a sequence of lines (the '\n' split) and a line is a   *)
(* sequence of fields (the '\t' split).  A Python bytes value is a         *)
(* sequence of integers 0..255.  Confidences are kept in percent.          *)
(***************************************************************************)
EXTENDS Integers, Sequences, FiniteSets, TLC

\* ------------------------------------------------------------------------
\* Bounds of the model
\* ------------------------------------------------------------------------
MaxCalls == 2
MaxPlainLen == 2
MaxKey == 2
MaxClock == 7201
MaxVerifications == 2
MaxProofs == 6
MaxPredictions == 3
MaxCreated == 1
MaxTokens == 2
MaxRecorded == 3

\* ------------------------------------------------------------------------
\* str helpers
\* ------------------------------------------------------------------------
Range(s) == {s[i] : i \in DOMAIN s}

UpperOf ==
    "a" :> "A" @@ "c" :> "C" @@ "g" :> "G" @@ "t" :> "T" @@ "r" :> "R"
    @@ "s" :> "S" @@ "i" :> "I" @@ "d" :> "D" @@ "n" :> "N" @@ "h" :> "H"
    @@ "o" :> "O" @@ "m" :> "M" @@ "e" :> "E" @@ "p" :> "P" @@ "y" :> "Y"
    @@ "l" :> "L" @@ "v" :> "V" @@ "f" :> "F"

Upper(s) ==
    [i \in DOMAIN s |-> IF s[i] \in DOMAIN UpperOf THEN UpperOf[s[i]] ELSE s[i]]

Lower(s) ==
    [i \in DOMAIN s |->
        IF \E l \in DOMAIN UpperOf : UpperOf[l] = s[i]
        THEN CHOOSE l \in DOMAIN UpperOf : UpperOf[l] = s[i]
        ELSE s[i]]

RECURSIVE LStrip(_)
LStrip(s) ==
    IF s # <<>> /\ Head(s) = " " THEN LStrip(Tail(s)) ELSE s

RECURSIVE RStrip(_)
RStrip(s) ==
    IF s # <<>> /\ s[Len(s)] = " "
    THEN RStrip(SubSeq(s, 1, Len(s) - 1))
    ELSE s

Strip(s) == RStrip(LStrip(s))

StartsWith(s, p) == Len(s) >= Len(p) /\ SubSeq(s, 1, Len(p)) = p

EndsWith(s, p) ==
    Len(s) >= Len(p) /\ SubSeq(s, Len(s) - Len(p) + 1, Len(s)) = p

\* str.replace(old, "") for a non-empty old: leftmost non-overlapping matches
RECURSIVE Remove(_, _)
Remove(s, old) ==
    IF s = <<>> THEN <<>>
    ELSE IF StartsWith(s, old) THEN Remove(SubSeq(s, Len(old) + 1, Len(s)), old)
    ELSE <<Head(s)>> \o Remove(Tail(s), old)

\* str.split(sep) for a one-character sep
RECURSIVE SplitChar(_, _)
SplitChar(s, sep) ==
    IF \A i \in DOMAIN s : s[i] # sep THEN <<s>>
    ELSE LET k == CHOOSE i \in DOMAIN s :
                      s[i] = sep /\ \A j \in 1..(i - 1) : s[j] # sep
         IN  <<SubSeq(s, 1, k - 1)>> \o SplitChar(SubSeq(s, k + 1, Len(s)), sep)

RECURSIVE Concat(_)
Concat(ss) == IF ss = <<>> THEN <<>> ELSE Head(ss) \o Concat(Tail(ss))

DigitVal ==
    "0" :> 0 @@ "1" :> 1 @@ "2" :> 2 @@ "3" :> 3 @@ "4" :> 4
    @@ "5" :> 5 @@ "6" :> 6 @@ "7" :> 7 @@ "8" :> 8 @@ "9" :> 9

\* int(s) accepts surrounding whitespace, one optional sign and digits;
\* anything else raises ValueError
IsInt(s) ==
    LET t == Strip(s)
        d == IF t # <<>> /\ Head(t) \in {"+", "-"} THEN Tail(t) ELSE t
    IN  d # <<>> /\ \A i \in DOMAIN d : d[i] \in DOMAIN DigitVal

RECURSIVE DigitsVal(_)
DigitsVal(d) ==
    IF d = <<>> THEN 0
    ELSE 10 * DigitsVal(SubSeq(d, 1, Len(d) - 1)) + DigitVal[d[Len(d)]]

IntOf(s) ==
    LET t == Strip(s)
    IN  IF Head(t) = "-" THEN 0 - DigitsVal(Tail(t))
        ELSE IF Head(t) = "+" THEN DigitsVal(Tail(t))
        ELSE DigitsVal(t)

\* code-point order of the characters that occur in genotype strings
CharOrder ==
    <<" ", "#", "-", ".", "0", "1", "2", "3", "4", "5", "6", "7", "8", "9",
      "?", "A", "C", "D", "G", "I", "N", "T", "a", "c", "d", "g", "i", "n", "t">>

Ord(c) == CHOOSE i \in DOMAIN CharOrder : CharOrder[i] = c

RECURSIVE Insert(_, _)
Insert(c, s) ==
    IF s = <<>> THEN <<c>>
    ELSE IF Ord(c) < Ord(Head(s)) THEN <<c>> \o s
    ELSE <<Head(s)>> \o Insert(c, Tail(s))

\* ''.join(sorted(s))
RECURSIVE Sorted(_)
Sorted(s) == IF s = <<>> THEN <<>> ELSE Insert(Head(s), Sorted(Tail(s)))

\* Python None where a str is expected; no str equals it
NoneStr == <<"<None>">>

Truthy(s) == s # NoneStr /\ s # <<>>

\* ------------------------------------------------------------------------
\* SNPAnalyzer: knowledge base
\* ------------------------------------------------------------------------
SNP_DATABASE ==
    <<"r", "s", "1", "2", "9", "1", "3", "8", "3", "2">> :> [gene |-> "HERC2", trait |-> "eye_color", chromosome |-> "15",
        variants |-> (<<"G", "G">> :> [prediction |-> "blue", confidence |-> 85] @@ <<"A", "G">> :> [prediction |-> "green_hazel", confidence |-> 70] @@ <<"A", "A">> :> [prediction |-> "brown", confidence |-> 90])]
    @@ <<"r", "s", "1", "8", "0", "0", "4", "0", "7">> :> [gene |-> "OCA2", trait |-> "eye_color", chromosome |-> "15",
        variants |-> (<<"C", "C">> :> [prediction |-> "brown_modifier", confidence |-> 60] @@ <<"C", "T">> :> [prediction |-> "mixed", confidence |-> 50] @@ <<"T", "T">> :> [prediction |-> "blue_modifier", confidence |-> 65])]
    @@ <<"r", "s", "4", "9", "8", "8", "2", "3", "5">> :> [gene |-> "MCM6", trait |-> "lactose_tolerance", chromosome |-> "2",
        variants |-> (<<"T", "T">> :> [prediction |-> "lactose_tolerant", confidence |-> 95] @@ <<"C", "T">> :> [prediction |-> "likely_tolerant", confidence |-> 75] @@ <<"C", "C">> :> [prediction |-> "lactose_intolerant", confidence |-> 90])]
    @@ <<"r", "s", "1", "8", "1", "5", "7", "3", "9">> :> [gene |-> "ACTN3", trait |-> "muscle_type", chromosome |-> "11",
        variants |-> (<<"C", "C">> :> [prediction |-> "power_athlete", confidence |-> 70] @@ <<"C", "T">> :> [prediction |-> "mixed", confidence |-> 60] @@ <<"T", "T">> :> [prediction |-> "endurance_athlete", confidence |-> 65])]
    @@ <<"r", "s", "7", "6", "2", "5", "5", "1">> :> [gene |-> "CYP1A2", trait |-> "caffeine_metabolism", chromosome |-> "15",
        variants |-> (<<"A", "A">> :> [prediction |-> "fast_metabolizer", confidence |-> 80] @@ <<"A", "C">> :> [prediction |-> "moderate_metabolizer", confidence |-> 65] @@ <<"C", "C">> :> [prediction |-> "slow_metabolizer", confidence |-> 75])]
    @@ <<"r", "s", "6", "7", "1">> :> [gene |-> "ALDH2", trait |-> "alcohol_flush", chromosome |-> "12",
        variants |-> (<<"G", "G">> :> [prediction |-> "normal", confidence |-> 95] @@ <<"A", "G">> :> [prediction |-> "mild_flush", confidence |-> 85] @@ <<"A", "A">> :> [prediction |-> "severe_flush", confidence |-> 95])]
    @@ <<"r", "s", "7", "1", "3", "5", "9", "8">> :> [gene |-> "TAS2R38", trait |-> "bitter_taste", chromosome |-> "7",
        variants |-> (<<"C", "C">> :> [prediction |-> "non_taster", confidence |-> 80] @@ <<"C", "G">> :> [prediction |-> "medium_taster", confidence |-> 70] @@ <<"G", "G">> :> [prediction |-> "super_taster", confidence |-> 85])]
    @@ <<"r", "s", "2", "2", "8", "2", "6", "7", "9">> :> [gene |-> "GC", trait |-> "vitamin_d", chromosome |-> "4",
        variants |-> (<<"A", "A">> :> [prediction |-> "higher_levels", confidence |-> 65] @@ <<"A", "G">> :> [prediction |-> "normal_levels", confidence |-> 55] @@ <<"G", "G">> :> [prediction |-> "lower_levels", confidence |-> 70])]
    @@ <<"r", "s", "8", "0", "3", "5", "7", "9", "0", "6">> :> [gene |-> "BRCA1", trait |-> "brca1_status", chromosome |-> "17",
        variants |-> (<<"n", "o", "r", "m", "a", "l">> :> [prediction |-> "no_variant", confidence |-> 99] @@ <<"v", "a", "r", "i", "a", "n", "t">> :> [prediction |-> "variant_detected", confidence |-> 99])]
    @@ <<"r", "s", "7", "2", "9", "2", "1", "0", "0", "1">> :> [gene |-> "OR6A2", trait |-> "cilantro_taste", chromosome |-> "11",
        variants |-> (<<"C", "C">> :> [prediction |-> "tastes_normal", confidence |-> 70] @@ <<"C", "T">> :> [prediction |-> "slightly_soapy", confidence |-> 60] @@ <<"T", "T">> :> [prediction |-> "tastes_like_soap", confidence |-> 80])]
    @@ <<"r", "s", "1", "7", "8", "2", "2", "9", "3", "1">> :> [gene |-> "ABCC11", trait |-> "earwax_type", chromosome |-> "16",
        variants |-> (<<"C", "C">> :> [prediction |-> "wet_earwax", confidence |-> 95] @@ <<"C", "T">> :> [prediction |-> "wet_earwax", confidence |-> 90] @@ <<"T", "T">> :> [prediction |-> "dry_earwax", confidence |-> 95])]

TRAIT_SNPS ==
    "eye_color" :> << <<"r", "s", "1", "2", "9", "1", "3", "8", "3", "2">>, <<"r", "s", "1", "8", "0", "0", "4", "0", "7">> >>
    @@ "lactose_tolerance" :> << <<"r", "s", "4", "9", "8", "8", "2", "3", "5">> >>
    @@ "muscle_type" :> << <<"r", "s", "1", "8", "1", "5", "7", "3", "9">> >>
    @@ "caffeine_metabolism" :> << <<"r", "s", "7", "6", "2", "5", "5", "1">> >>
    @@ "alcohol_flush" :> << <<"r", "s", "6", "7", "1">> >>
    @@ "bitter_taste" :> << <<"r", "s", "7", "1", "3", "5", "9", "8">> >>
    @@ "vitamin_d" :> << <<"r", "s", "2", "2", "8", "2", "6", "7", "9">> >>
    @@ "cilantro_taste" :> << <<"r", "s", "7", "2", "9", "2", "1", "0", "0", "1">> >>
    @@ "earwax_type" :> << <<"r", "s", "1", "7", "8", "2", "2", "9", "3", "1">> >>
    @@ "brca1_status" :> << <<"r", "s", "8", "0", "3", "5", "7", "9", "0", "6">> >>

\* get_available_traits: the keys of TRAIT_SNPS in declaration order
AvailableTraits ==
    <<"eye_color", "lactose_tolerance", "muscle_type", "caffeine_metabolism",
      "alcohol_flush", "bitter_taste", "vitamin_d", "cilantro_taste",
      "earwax_type", "brca1_status">>

\* ------------------------------------------------------------------------
\* SNPAnalyzer: format detection and parsing
\* ------------------------------------------------------------------------
\* the column names and prefixes the parser looks for
WORD ==
    [hdr_23andme |-> <<"#", " ", "r", "s", "i", "d">>,
     chromosome |-> <<"c", "h", "r", "o", "m", "o", "s", "o", "m", "e">>,
     position |-> <<"p", "o", "s", "i", "t", "i", "o", "n">>,
     genotype |-> <<"g", "e", "n", "o", "t", "y", "p", "e">>,
     rsID |-> <<"r", "s", "I", "D">>,
     allele1 |-> <<"a", "l", "l", "e", "l", "e", "1">>,
     allele2 |-> <<"a", "l", "l", "e", "l", "e", "2">>,
     hdr_vcf |-> <<"#", "#", "f", "i", "l", "e", "f", "o", "r", "m", "a", "t",
                   "=", "V", "C", "F">>,
     rs |-> <<"r", "s">>,
     chr |-> <<"c", "h", "r">>]

\* not line.strip(): tabs and blanks only
IsBlankLine(line) == \A i \in DOMAIN line : Strip(line[i]) = <<>>

RECURSIVE DropLeadingBlank(_)
DropLeadingBlank(text) ==
    IF text # <<>> /\ IsBlankLine(Head(text))
    THEN DropLeadingBlank(Tail(text))
    ELSE text

RECURSIVE DropTrailingBlank(_)
DropTrailingBlank(text) ==
    IF text # <<>> /\ IsBlankLine(text[Len(text)])
    THEN DropTrailingBlank(SubSeq(text, 1, Len(text) - 1))
    ELSE text

RECURSIVE LStripLine(_)
LStripLine(line) ==
    IF Len(line) > 1 /\ Strip(Head(line)) = <<>> THEN LStripLine(Tail(line))
    ELSE <<LStrip(Head(line))>> \o Tail(line)

RECURSIVE RStripLine(_)
RStripLine(line) ==
    IF Len(line) > 1 /\ Strip(line[Len(line)]) = <<>>
    THEN RStripLine(SubSeq(line, 1, Len(line) - 1))
    ELSE SubSeq(line, 1, Len(line) - 1) \o <<RStrip(line[Len(line)])>>

\* content.strip().split('\n')
StripSplitLines(text) ==
    LET t == DropTrailingBlank(DropLeadingBlank(text))
    IN  IF t = <<>> THEN << << <<>> >> >>
        ELSE LET a == <<LStripLine(Head(t))>> \o Tail(t)
             IN  SubSeq(a, 1, Len(a) - 1) \o <<RStripLine(a[Len(a)])>>

\* the format a header line names: '# rsid' or the 23andMe columns in
\* line.lower(), the AncestryDNA columns, '##fileformat=VCF'
HeaderFormat(line) ==
    IF \/ StartsWith(Head(line), WORD.hdr_23andme)
       \/ \E i \in 1..(Len(line) - 2) :
             /\ EndsWith(Lower(line[i]), WORD.chromosome)
             /\ Lower(line[i + 1]) = WORD.position
             /\ StartsWith(Lower(line[i + 2]), WORD.genotype)
    THEN "23andme"
    ELSE IF \E i \in 1..(Len(line) - 4) :
               /\ EndsWith(line[i], WORD.rsID)
               /\ line[i + 1] = WORD.chromosome
               /\ line[i + 2] = WORD.position
               /\ line[i + 3] = WORD.allele1
               /\ StartsWith(line[i + 4], WORD.allele2)
    THEN "ancestry"
    ELSE IF StartsWith(Head(line), WORD.hdr_vcf) THEN "vcf"
    ELSE "unknown"

detect_format(text) ==
    LET all == StripSplitLines(text)
        lines == SubSeq(all, 1, IF Len(all) < 20 THEN Len(all) ELSE 20)
        hdr == {i \in DOMAIN lines : HeaderFormat(lines[i]) # "unknown"}
    IN  IF hdr # {}
        THEN HeaderFormat(lines[CHOOSE i \in hdr : \A j \in hdr : i <= j])
        ELSE IF \E i \in DOMAIN lines :
                    /\ ~StartsWith(Head(lines[i]), <<"#">>)
                    /\ Len(lines[i]) >= 4
                    /\ StartsWith(lines[i][1], WORD.rs)
        THEN "23andme"
        ELSE "unknown"

\* alleles[int(i)] with Python's negative indexing; FALSE stands for a raised
\* ValueError / IndexError
VcfIndexOk(alleles, i) ==
    /\ IsInt(i)
    /\ IntOf(i) < Len(alleles)
    /\ IntOf(i) >= 0 - Len(alleles)

VcfAllele(alleles, i) ==
    IF IntOf(i) >= 0 THEN alleles[IntOf(i) + 1]
    ELSE alleles[Len(alleles) + IntOf(i) + 1]

vcf_genotype_to_string(ref, alt, gt) ==
    LET alleles == <<ref>> \o SplitChar(alt, ",")
        slashed == [i \in DOMAIN gt |-> IF gt[i] = "|" THEN "/" ELSE gt[i]]
        indices == SelectSeq(SplitChar(slashed, "/"), LAMBDA i : i # <<".">>)
    IN  IF \A k \in DOMAIN indices : VcfIndexOk(alleles, indices[k])
        THEN Concat([k \in DOMAIN indices |-> VcfAllele(alleles, indices[k])])
        ELSE <<"?", "?">>

NoRecord == [ok |-> FALSE, rsid |-> <<>>, chromosome |-> <<>>, position |-> 0,
             genotype |-> <<>>]

\* one iteration of the loop body of parse_file
ParseLine(fmt, line) ==
    IF StartsWith(Head(line), <<"#">>) \/ IsBlankLine(line) THEN NoRecord
    ELSE IF fmt = "23andme" /\ Len(line) >= 4 /\ IsInt(line[3])
    THEN [ok |-> TRUE, rsid |-> Lower(Strip(line[1])),
          chromosome |-> Strip(line[2]), position |-> IntOf(line[3]),
          genotype |-> Upper(Strip(line[4]))]
    ELSE IF fmt = "ancestry" /\ Len(line) >= 5 /\ IsInt(line[3])
    THEN [ok |-> TRUE, rsid |-> Lower(Strip(line[1])),
          chromosome |-> Strip(line[2]), position |-> IntOf(line[3]),
          genotype |-> Upper(Strip(line[4] \o line[5]))]
    ELSE IF fmt = "vcf" /\ Len(line) >= 10 /\ StartsWith(line[3], WORD.rs)
            /\ IsInt(line[2])
    THEN [ok |-> TRUE, rsid |-> Lower(Strip(line[3])),
          chromosome |-> Remove(Strip(line[1]), WORD.chr),
          position |-> IntOf(line[2]),
          genotype |-> vcf_genotype_to_string(line[4], line[5],
                                              Head(SplitChar(line[10], ":")))]
    ELSE NoRecord

EmptyMap == [r \in {} |-> NoRecord]

Store(m, rec) ==
    [r \in DOMAIN m \cup {rec.rsid} |->
        IF r = rec.rsid
        THEN [chromosome |-> rec.chromosome, position |-> rec.position,
              genotype |-> rec.genotype]
        ELSE m[r]]

\* a loop that ends at the first line it cannot use
RECURSIVE ParseLinesAborting(_, _, _)
ParseLinesAborting(fmt, lines, m) ==
    IF lines = <<>> THEN m
    ELSE IF StartsWith(Head(Head(lines)), <<"#">>) \/ IsBlankLine(Head(lines))
    THEN ParseLinesAborting(fmt, Tail(lines), m)
    ELSE IF ParseLine(fmt, Head(lines)).ok
    THEN ParseLinesAborting(fmt, Tail(lines),
                            Store(m, ParseLine(fmt, Head(lines))))
    ELSE m

RECURSIVE ParseLines(_, _, _)
ParseLines(fmt, lines, m) ==
    IF lines = <<>> THEN m
    ELSE LET rec == ParseLine(fmt, Head(lines))
         IN  ParseLines(fmt, Tail(lines), IF rec.ok THEN Store(m, rec) ELSE m)

\* the map held after parse_file(text): the previous map is cleared first
parse_file(text) ==
    ParseLines(detect_format(text), StripSplitLines(text), EmptyMap)

\* a clear() that leaves the dict as it is
dict_clear_skipped(held) == held

\* self._parsed_data.clear()
dict_clear(held) == EmptyMap

\* parse_file(content) on an analyzer that holds the map held
parse_file_on(held, content) ==
    ParseLines(detect_format(content), StripSplitLines(content),
               dict_clear(held))

\* a clear_data that leaves the analyzer as it is
clear_data_skipped(a) == a

\* clear_data, on the analyzer's two fields
clear_data(a) == [parsed_data |-> EmptyMap, file_format |-> "unknown"]

\* ------------------------------------------------------------------------
\* SNPAnalyzer: lookup, match, prediction, dispatch (over a parsed map m)
\* ------------------------------------------------------------------------
\* SNP_DATABASE.get(rsid): the catalogue entry, or one without variants
SnpInfo(rsid_lower) ==
    IF rsid_lower \in DOMAIN SNP_DATABASE THEN SNP_DATABASE[rsid_lower]
    ELSE [gene |-> "None", trait |-> "None", chromosome |-> "None",
          variants |-> <<>>]

\* the SNPResult of a stored record and its catalogue entry
Annotated(rsid, rec, info) ==
    [rsid |-> rsid, chromosome |-> rec.chromosome, position |-> rec.position,
     genotype |-> rec.genotype, found |-> TRUE, gene |-> info.gene,
     trait |-> info.trait,
     interpretation |-> IF rec.genotype \in DOMAIN info.variants
                        THEN info.variants[rec.genotype].prediction
                        ELSE "None"]

\* a lookup that answers from the catalogue without reading the map
lookup_snp_defaulting(m, rsid) ==
    Annotated(rsid, [chromosome |-> <<>>, position |-> 0,
                     genotype |-> <<"G", "G">>], SnpInfo(Lower(rsid)))

lookup_snp(m, rsid) ==
    IF Lower(rsid) \notin DOMAIN m
    THEN [rsid |-> rsid, chromosome |-> <<>>, position |-> 0,
          genotype |-> <<>>, found |-> FALSE, gene |-> "None",
          trait |-> "None", interpretation |-> "None"]
    ELSE Annotated(rsid, m[Lower(rsid)], SnpInfo(Lower(rsid)))

\* a comparison of the upper-cased strings as they stand, alleles unsorted
check_snp_match_ordered(m, rsid, target_genotype) ==
    LET result == lookup_snp(m, rsid)
    IN  IF ~result.found THEN <<FALSE, NoneStr>>
        ELSE IF Truthy(target_genotype)
        THEN <<Upper(target_genotype) = Upper(result.genotype),
               result.genotype>>
        ELSE <<TRUE, result.genotype>>

\* returns the pair (exists/matches, genotype or None)
check_snp_match(m, rsid, target_genotype) ==
    LET result == lookup_snp(m, rsid)
    IN  IF ~result.found THEN <<FALSE, NoneStr>>
        ELSE IF Truthy(target_genotype)
        THEN <<Sorted(Upper(target_genotype)) = Sorted(Upper(result.genotype)),
               result.genotype>>
        ELSE <<TRUE, result.genotype>>

\* an insertion that puts the later element before its equals
RECURSIVE InsertBeforeEqual(_, _)
InsertBeforeEqual(p, ps) ==
    IF ps = <<>> THEN <<p>>
    ELSE IF p.confidence >= Head(ps).confidence THEN <<p>> \o ps
    ELSE <<Head(ps)>> \o InsertBeforeEqual(p, Tail(ps))

\* list.sort(key=confidence, reverse=True): stable, descending
RECURSIVE InsertByConfidence(_, _)
InsertByConfidence(p, ps) ==
    IF ps = <<>> THEN <<p>>
    ELSE IF p.confidence > Head(ps).confidence THEN <<p>> \o ps
    ELSE <<Head(ps)>> \o InsertByConfidence(p, Tail(ps))

RECURSIVE SortByConfidence(_)
SortByConfidence(ps) ==
    IF ps = <<>> THEN <<>>
    ELSE InsertByConfidence(ps[Len(ps)],
                            SortByConfidence(SubSeq(ps, 1, Len(ps) - 1)))

NoPrediction == [found |-> FALSE, trait |-> "None", prediction |-> "None",
                 confidence |-> 0, supporting_snps |-> <<>>]

\* result.found, the rsID is catalogued and the genotype is one of its variants
HasPrediction(result) ==
    /\ result.found
    /\ result.genotype \in DOMAIN SnpInfo(Lower(result.rsid)).variants

\* the (prediction, confidence) pairs collected by the loop of predict_trait
TraitPredictions(results) ==
    LET hits == SelectSeq(results, HasPrediction)
    IN  [i \in DOMAIN hits |->
            SnpInfo(Lower(hits[i].rsid)).variants[hits[i].genotype]]

\* the TraitPrediction built from the sorted predictions, or None
BestOf(trait, predictions, supporting) ==
    IF predictions = <<>> THEN NoPrediction
    ELSE [found |-> TRUE, trait |-> trait,
          prediction |-> Head(predictions).prediction,
          confidence |-> Head(predictions).confidence,
          supporting_snps |-> supporting]

predict_trait(m, trait) ==
    IF trait \notin DOMAIN TRAIT_SNPS THEN NoPrediction
    ELSE LET results == [i \in DOMAIN TRAIT_SNPS[trait] |->
                            lookup_snp(m, TRAIT_SNPS[trait][i])]
         IN  BestOf(trait, SortByConfidence(TraitPredictions(results)),
                    SelectSeq(results, LAMBDA result : result.found))

NoParams == [rsid |-> NoneStr, genotype |-> NoneStr, trait |-> "None",
             rsids |-> <<>>, expected_value |-> "None"]

IsError(result) == "error" \in DOMAIN result

\* match is the (found, genotype) pair check_snp_match returned
SnpCheckResult(query_type, params, match) ==
    [query_type |-> query_type, rsid |-> params.rsid, found |-> match[1],
     matches |-> IF ~Truthy(params.genotype) THEN match[1]
                 ELSE IF Truthy(match[2]) THEN match[2] = params.genotype
                 ELSE FALSE,
     has_variant |-> match[1]]

TraitQueryResult(query_type, params, prediction) ==
    IF ~prediction.found
    THEN [query_type |-> query_type, trait |-> params.trait, found |-> FALSE]
    ELSE [query_type |-> query_type, trait |-> params.trait, found |-> TRUE,
          prediction |-> prediction.prediction,
          confidence |-> prediction.confidence]

VariantSearchResult(query_type, results) ==
    [query_type |-> query_type, results |-> results,
     total_found |-> Cardinality({r \in DOMAIN results : results[r]})]

\* a batch search that reports an rsID only when its genotype is GG
analyze_for_bounty_by_genotype(m, query_type, params) ==
    IF query_type = "SNP_CHECK"
    THEN IF ~Truthy(params.rsid) THEN [error |-> "Missing rsid parameter"]
         ELSE SnpCheckResult(query_type, params,
                             check_snp_match(m, params.rsid, params.genotype))
    ELSE IF query_type = "TRAIT_QUERY"
    THEN IF params.trait \in {"None", ""}
         THEN [error |-> "Missing trait parameter"]
         ELSE TraitQueryResult(query_type, params,
                               predict_trait(m, params.trait))
    ELSE IF query_type = "VARIANT_SEARCH"
    THEN VariantSearchResult(query_type,
                             [r \in Range(params.rsids) |->
                                 check_snp_match(m, r, <<"G", "G">>)[1]])
    ELSE [error |-> "Unknown query type: " \o query_type]

analyze_for_bounty(m, query_type, params) ==
    IF query_type = "SNP_CHECK"
    THEN IF ~Truthy(params.rsid) THEN [error |-> "Missing rsid parameter"]
         ELSE SnpCheckResult(query_type, params,
                             check_snp_match(m, params.rsid, params.genotype))
    ELSE IF query_type = "TRAIT_QUERY"
    THEN IF params.trait \in {"None", ""}
         THEN [error |-> "Missing trait parameter"]
         ELSE TraitQueryResult(query_type, params,
                               predict_trait(m, params.trait))
    ELSE IF query_type = "VARIANT_SEARCH"
    THEN VariantSearchResult(query_type,
                             [r \in Range(params.rsids) |->
                                 check_snp_match(m, r, NoneStr)[1]])
    ELSE [error |-> "Unknown query type: " \o query_type]

\* ------------------------------------------------------------------------
\* wallet_crypto: library primitives (hashlib, gzip, AESGCM, os.urandom)
\*
\* The primitives are ideal: SHA-256 is collision free, AES-GCM decrypts
\* exactly the ciphertexts that were produced under the same key, nonce and
\* associated data.  The authentication tag is modelled by the keyed
\* transcript it authenticates, so verifying it is recomputing and comparing.
\* ------------------------------------------------------------------------
ENCRYPTION_VERSION == 1
NONCE_SIZE == 12
SALT_SIZE == 16
HASH_SIZE == 32

\* data[a:b] of Python, a and b 0-based and clipped to the data
Slice(data, a, b) ==
    SubSeq(data, a + 1, IF b < Len(data) THEN b ELSE Len(data))

\* hashlib.sha256(data).digest()
Sha256(data) ==
    [i \in 1..HASH_SIZE |->
        IF i = 1 THEN Len(data) + 1
        ELSE IF i - 1 <= Len(data) THEN data[i - 1]
        ELSE 0]

\* gzip.compress(data): magic, the stream, the length trailer
GzipCompress(data) == <<31, 139>> \o data \o <<Len(data) % 256>>

GzipOk(x) ==
    \/ x = <<>>
    \/ /\ Len(x) >= 3
       /\ SubSeq(x, 1, 2) = <<31, 139>>
       /\ x[Len(x)] = (Len(x) - 3) % 256

GzipDecompress(x) == IF x = <<>> THEN <<>> ELSE SubSeq(x, 3, Len(x) - 1)

\* os.urandom(n), the randomness named by a seed
Urandom(n, seed) == [i \in 1..n |-> (seed * i) % 256]

KeyStream(key, nonce, i) == (key * 7 + nonce[1] + i) % 256

AesCtr(key, nonce, body) ==
    [i \in DOMAIN body |-> (body[i] + KeyStream(key, nonce, i)) % 256]

AesCtrInv(key, nonce, body) ==
    [i \in DOMAIN body |-> (body[i] + 256 - KeyStream(key, nonce, i)) % 256]

\* the tag: the transcript it authenticates, every byte of it keyed
GcmTag(key, nonce, aad, body) ==
    [i \in 1..(Len(nonce) + Len(aad) + Len(body)) |->
        ((nonce \o aad \o body)[i] + 37 * key) % 256]

\* AESGCM(key).encrypt(nonce, plaintext, associated_data): body followed by tag
AesGcmEncrypt(key, nonce, plaintext, aad) ==
    AesCtr(key, nonce, plaintext)
        \o GcmTag(key, nonce, aad, AesCtr(key, nonce, plaintext))

GcmBodyLen(nonce, ciphertext, aad) ==
    (Len(ciphertext) - Len(nonce) - Len(aad)) \div 2

\* a cipher that does not authenticate
Unauthenticated(key, nonce, ciphertext, aad) ==
    Len(ciphertext) >= Len(nonce) + Len(aad)

\* the tag check of AESGCM(key).decrypt; a nonce shorter than 8 bytes is
\* refused before it
AesGcmVerify(key, nonce, ciphertext, aad) ==
    /\ Len(nonce) >= 8
    /\ Len(ciphertext) >= Len(nonce) + Len(aad)
    /\ 2 * GcmBodyLen(nonce, ciphertext, aad) + Len(nonce) + Len(aad)
           = Len(ciphertext)
    /\ SubSeq(ciphertext, GcmBodyLen(nonce, ciphertext, aad) + 1,
              Len(ciphertext))
           = GcmTag(key, nonce, aad,
                    SubSeq(ciphertext, 1, GcmBodyLen(nonce, ciphertext, aad)))

AesGcmDecrypt(key, nonce, ciphertext, aad) ==
    AesCtrInv(key, nonce,
              SubSeq(ciphertext, 1, GcmBodyLen(nonce, ciphertext, aad)))

\* ------------------------------------------------------------------------
\* wallet_crypto: EncryptedPayload and WalletCrypto
\* ------------------------------------------------------------------------
ALGORITHM == <<"A", "E", "S", "-", "2", "5", "6", "-", "G", "C", "M">>

\* the UTF-8 code of the characters that occur in an algorithm name
Utf8Code ==
    "A" :> 65 @@ "E" :> 69 @@ "S" :> 83 @@ "-" :> 45 @@ "2" :> 50
    @@ "5" :> 53 @@ "6" :> 54 @@ "G" :> 71 @@ "C" :> 67 @@ "M" :> 77
    @@ "_" :> 95 @@ "a" :> 97 @@ "c" :> 99 @@ "d" :> 100 @@ "e" :> 101
    @@ "h" :> 104 @@ "l" :> 108 @@ "n" :> 110 @@ "o" :> 111 @@ "p" :> 112
    @@ "r" :> 114 @@ "t" :> 116 @@ "y" :> 121

Utf8Encode(str) == [i \in DOMAIN str |-> Utf8Code[str[i]]]

Utf8Decode(bytes) ==
    [i \in DOMAIN bytes |->
        IF \E c \in DOMAIN Utf8Code : Utf8Code[c] = bytes[i]
        THEN CHOOSE c \in DOMAIN Utf8Code : Utf8Code[c] = bytes[i]
        ELSE "?"]

\* EncryptedPayload.to_bytes
to_bytes(payload) ==
    LET algo_bytes == Utf8Encode(payload.algorithm)
    IN  <<payload.version, Len(algo_bytes)>> \o algo_bytes \o payload.salt
        \o payload.nonce \o payload.original_hash
        \o <<IF payload.compressed THEN 1 ELSE 0>> \o payload.ciphertext

\* from_bytes raises IndexError when data[0], data[1] or the compressed flag
\* at data[offset] is missing
from_bytes_ok(data) ==
    /\ Len(data) >= 2
    /\ Len(data) > 2 + data[2] + SALT_SIZE + NONCE_SIZE + HASH_SIZE

\* EncryptedPayload.from_bytes
from_bytes(data) ==
    LET algo_len == data[2]
        o1 == 2 + algo_len
        o2 == o1 + SALT_SIZE
        o3 == o2 + NONCE_SIZE
        o4 == o3 + HASH_SIZE
    IN  [version |-> data[1],
         algorithm |-> Utf8Decode(Slice(data, 2, o1)),
         salt |-> Slice(data, o1, o2),
         nonce |-> Slice(data, o2, o3),
         ciphertext |-> Slice(data, o4 + 1, Len(data)),
         tag |-> <<>>,
         original_hash |-> Slice(data, o3, o4),
         compressed |-> data[o4 + 1] = 1]

\* an encrypt_data that hashes what it encrypts, not the data it was given
encrypt_data_hash_of_plaintext(data, key, compress, nonce_seed, salt_seed) ==
    LET plaintext == IF compress THEN GzipCompress(data) ELSE data
        nonce == Urandom(NONCE_SIZE, nonce_seed)
    IN  [version |-> ENCRYPTION_VERSION,
         algorithm |-> ALGORITHM,
         salt |-> Urandom(SALT_SIZE, salt_seed),
         nonce |-> nonce,
         ciphertext |-> AesGcmEncrypt(key, nonce, plaintext, Sha256(plaintext)),
         tag |-> <<>>,
         original_hash |-> Sha256(plaintext),
         compressed |-> compress]

\* WalletCrypto.encrypt_data; nonce_seed and salt_seed name the two urandom draws
encrypt_data(data, key, compress, nonce_seed, salt_seed) ==
    LET original_hash == Sha256(data)
        plaintext == IF compress THEN GzipCompress(data) ELSE data
        nonce == Urandom(NONCE_SIZE, nonce_seed)
        salt == Urandom(SALT_SIZE, salt_seed)
    IN  [version |-> ENCRYPTION_VERSION,
         algorithm |-> ALGORITHM,
         salt |-> salt,
         nonce |-> nonce,
         ciphertext |-> AesGcmEncrypt(key, nonce, plaintext, original_hash),
         tag |-> <<>>,
         original_hash |-> original_hash,
         compressed |-> compress]

Returned(data) == [ok |-> TRUE, data |-> data, kind |-> "None", msg |-> "None"]

Raised(kind, msg) == [ok |-> FALSE, data |-> <<>>, kind |-> kind, msg |-> msg]

\* WalletCrypto.decrypt_data: the bytes returned or the exception raised
decrypt_data(payload, key) ==
    IF ~AesGcmVerify(key, payload.nonce, payload.ciphertext,
                     payload.original_hash)
    THEN Raised("ValueError", "Decryption failed")
    ELSE LET plaintext == AesGcmDecrypt(key, payload.nonce, payload.ciphertext,
                                        payload.original_hash)
         IN  IF payload.compressed /\ ~GzipOk(plaintext)
             THEN Raised("BadGzipFile", "Not a gzipped file")
             ELSE LET data == IF payload.compressed
                              THEN GzipDecompress(plaintext)
                              ELSE plaintext
                  IN  IF Sha256(data) # payload.original_hash
                      THEN Raised("ValueError", "Data integrity check failed")
                      ELSE Returned(data)

\* WalletCrypto.decrypt_file, before the final decode('utf-8')
decrypt_file(encrypted_data, key) ==
    IF ~from_bytes_ok(encrypted_data) THEN Raised("IndexError", "index out of range")
    ELSE decrypt_data(from_bytes(encrypted_data), key)

\* ------------------------------------------------------------------------
\* GenomicAgent: values
\* ------------------------------------------------------------------------
Calls == 1..MaxCalls

RS12913832 == <<"r", "s", "1", "2", "9", "1", "3", "8", "3", "2">>
RS671 == <<"r", "s", "6", "7", "1">>

\* genome texts a decryption can yield
SampleText ==
    << <<WORD.hdr_23andme, WORD.chromosome, WORD.position, WORD.genotype>>,
       <<RS12913832, <<"1", "5">>, <<"2", "8", "3", "6", "5", "6", "1", "8">>,
         <<"G", "G">> >>,
       << <<"r", "s", "1", "8", "0", "0", "4", "0", "7">>, <<"1", "5">>, <<"2", "8", "2", "3", "0", "3", "1", "8">>,
         <<"T", "T">> >>,
       << <<>> >> >>

OtherText ==
    << <<WORD.rsID, WORD.chromosome, WORD.position, WORD.allele1, WORD.allele2>>,
       <<RS671, <<"1", "2">>, <<"1", "1", "2">>, <<"a">>, <<"G">> >> >>

Texts == <<SampleText, OtherText>>

\* the bytes a genome text is stored as, abbreviated to a two-byte name
TextBytes(i) == <<71, 48 + i>>

\* bytes.decode('utf-8') of a decrypted document
DecodeText(bytes) ==
    IF \E i \in DOMAIN Texts : TextBytes(i) = bytes
    THEN Texts[CHOOSE i \in DOMAIN Texts : TextBytes(i) = bytes]
    ELSE << <<Utf8Decode(bytes)>> >>

NoneText == << << <<"<None>">> >> >>
NoneBytes == <<0 - 1>>

\* b"encrypted_placeholder_data"
PLACEHOLDER ==
    <<101, 110, 99, 114, 121, 112, 116, 101, 100, 95, 112, 108, 97, 99, 101,
      104, 111, 108, 100, 101, 114, 95, 100, 97, 116, 97>>

\* a params value of the wrong type: an int where the rsid is expected
IntRsid == <<"<int>">>

StorageKey == 1
TokenId == 1

\* the (query_type, params) of the process_query calls that are explored
QueryShapes ==
    { [query_type |-> "SNP_CHECK", params |-> [NoParams EXCEPT !.rsid = RS12913832]],
      [query_type |-> "SNP_CHECK", params |-> NoParams],
      [query_type |-> "SNP_CHECK", params |-> [NoParams EXCEPT !.rsid = IntRsid]],
      [query_type |-> "TRAIT_QUERY", params |-> [NoParams EXCEPT !.trait = "eye_color"]],
      [query_type |-> "TRAIT_QUERY", params |-> NoParams],
      [query_type |-> "GENE_SCAN", params |-> NoParams] }

\* the bounty_params of the check_bounty_match calls that are explored;
\* bounty_params.get("query_type", "SNP_CHECK")
BountyShapes ==
    { [query_type |-> "SNP_CHECK", params |-> [NoParams EXCEPT !.rsid = RS671]],
      [query_type |-> "TRAIT_QUERY",
       params |-> [NoParams EXCEPT !.trait = "eye_color",
                                   !.expected_value = "blue"]] }

NoResult == [none |-> TRUE]

Digest(x, size) == [digest_of |-> x, size |-> size]

NoDigest == Digest(<<>>, 0)

NoResponse ==
    [status |-> "none", result |-> NoResult, zk_proof |-> NoDigest,
     response_hash |-> NoDigest, error |-> "None"]

\* an error response that keeps a status from upstream
error_response_rejected(error) ==
    [status |-> "REJECTED", result |-> NoResult, zk_proof |-> NoDigest,
     response_hash |-> NoDigest, error |-> error]

\* GenomicAgent._error_response
error_response(error) ==
    [status |-> "FAILED", result |-> NoResult, zk_proof |-> NoDigest,
     response_hash |-> NoDigest, error |-> error]

\* GenomicAgent._generate_zk_proof: sha256(...).digest(), 32 bytes
generate_zk_proof(query_id, query_type, result, token_id, now) ==
    Digest(<<query_id, query_type, token_id, Digest(<<result>>, 64), now>>, 32)

\* GenomicAgent._hash_response: sha256(...).hexdigest(), 64 characters
hash_response(query_id, result) == Digest(<<query_id, result>>, 64)

\* GenomicAgent._generate_session_id
generate_session_id(query_id, token_id, now) ==
    Digest(<<query_id, token_id, now>>, 16)

\* GenomicAgent._log_query: the entry appended to the audit log
log_entry(query_id, query_type, token_id, owner_address, requester, now) ==
    [query_id |-> query_id, query_type |-> query_type, token_id |-> token_id,
     owner_address |-> owner_address, requester |-> requester,
     timestamp |-> now]

append_log(log, entry) == Append(log, entry)

\* a get_query_log that hands out the agent's own list
log_aliased(log, edited) == edited

\* get_query_log returns a copy: what a caller does to the list it was given
\* leaves the agent's own list as it is
log_after_caller_edit(log, edited) == log

\* an await between parse_file and the analysis
SuspendsAfterParse(step) == step \in {"fetch", "llm", "parse"}

\* the await expressions of the three entry points: control may return to
\* the event loop there and nowhere else
SuspendsAt(step) == step \in {"fetch", "llm"}

\* a cancellation that ends the call where it waits
CancelEndsCall == "done"

\* where a CancelledError thrown into a suspended call continues: the
\* finally block
CancelTarget == "finally"

\* the early return after a failed fetch / a failed decryption
AfterFetch(encrypted_data) ==
    IF encrypted_data = NoneBytes \/ encrypted_data = <<>> THEN "finally"
    ELSE "decrypt"

\* a decryption whose answer is not checked
AfterDecryptUnchecked(decrypted_data) == "parse"

AfterDecrypt(decrypted_data) ==
    IF decrypted_data = NoneText \/ decrypted_data = << << <<>> >> >> THEN "finally"
    ELSE "parse"

\* an exception raised inside analyze_for_bounty: int has no lower()
AnalysisRaises(query) ==
    query.query_type = "SNP_CHECK" /\ query.params.rsid = IntRsid

\* the value check_bounty_match returns from its analysis result
bounty_match(query, result) ==
    IF query.query_type = "SNP_CHECK"
    THEN IF IsError(result) THEN FALSE ELSE result.found \/ result.matches
    ELSE IF query.query_type = "TRAIT_QUERY"
    THEN IF query.params.expected_value # "None"
         THEN "prediction" \in DOMAIN result
              /\ result.prediction = query.params.expected_value
         ELSE "found" \in DOMAIN result /\ result.found
    ELSE FALSE

\* the trait_predictions dict natural_language_query puts in its prompt
FoundPredictions(all) ==
    [t \in {u \in DOMAIN all : all[u].found} |->
        [prediction |-> all[t].prediction, confidence |-> all[t].confidence]]

trait_predictions(m) ==
    FoundPredictions([t \in Range(AvailableTraits) |-> predict_trait(m, t)])

\* ------------------------------------------------------------------------
\* zk_responder: ZKProof, ZKResponder, ProofAggregator
\*
\* A bytes value made by a hash or drawn at random is the record Digest
\* gives: what it was made of and its length.  SHA-256 and HMAC-SHA256 are
\* ideal: equal outputs come from equal inputs only.
\* ------------------------------------------------------------------------
MAX_PROOF_AGE == 3600
PROOF_FIELD_SIZE == 32

AgentIds == {"0xA", "0xB"}

\* ZKResponder.__init__: sha256(_agent_secret + agent_id), _agent_secret
\* being the one value the class drew when it was loaded
\* a secret that leaves the agent id out
SecretOfAnyAgent(agent_id) == Digest(<<"_agent_secret">>, 32)

Secret(agent_id) == Digest(<<"_agent_secret", agent_id>>, 32)

\* hmac.new(key, msg, sha256).digest()
Hmac(key, msg) == Digest(<<"hmac", key, msg>>, 32)

\* datetime.utcnow().isoformat() at time t: a string fromisoformat reads
\* back as the naive time t
IsoFormat(t) == [kind |-> "naive", t |-> t]

\* ZKResponder._create_commitment_data
create_commitment_data(agent_id, result, query_id, token_id, timestamp) ==
    <<Secret(agent_id), result, query_id, token_id, timestamp, agent_id>>

\* now and challenge name the clock reading and the secrets.token_bytes draw
generate_boolean_proof(agent_id, result, query_id, token_id, query_type, now, challenge) ==
    [proof_type |-> "boolean",
     commitment |-> Digest(create_commitment_data(agent_id,
                               <<IF result THEN "true" ELSE "false">>,
                               query_id, token_id, IsoFormat(now)), 32),
     challenge |-> challenge,
     response |-> Hmac(Secret(agent_id),
                       <<Digest(create_commitment_data(agent_id,
                                    <<IF result THEN "true" ELSE "false">>,
                                    query_id, token_id, IsoFormat(now)), 32),
                         challenge>>),
     public_inputs |-> [query_id |-> query_id, token_id |-> token_id,
                        query_type |-> query_type, result |-> result,
                        agent_id |-> agent_id],
     timestamp |-> IsoFormat(now),
     version |-> 1]

generate_trait_proof(agent_id, trait, prediction, confidence, query_id, token_id, now, challenge) ==
    [proof_type |-> "commitment",
     commitment |-> Digest(create_commitment_data(agent_id,
                               <<"trait", trait, prediction, confidence>>,
                               query_id, token_id, IsoFormat(now)), 32),
     challenge |-> challenge,
     response |-> Hmac(Secret(agent_id),
                       <<Digest(create_commitment_data(agent_id,
                                    <<"trait", trait, prediction, confidence>>,
                                    query_id, token_id, IsoFormat(now)), 32),
                         challenge>>),
     public_inputs |-> [query_id |-> query_id, token_id |-> token_id,
                        query_type |-> "TRAIT_QUERY", trait |-> trait,
                        prediction |-> prediction, confidence |-> confidence,
                        agent_id |-> agent_id],
     timestamp |-> IsoFormat(now),
     version |-> 1]

generate_variant_count_proof(agent_id, searched_variants, found_count, query_id, token_id, now, challenge) ==
    [proof_type |-> "range",
     commitment |-> Digest(create_commitment_data(agent_id,
                               <<"count", found_count, searched_variants>>,
                               query_id, token_id, IsoFormat(now)), 32),
     challenge |-> challenge,
     response |-> Hmac(Secret(agent_id),
                       <<Digest(create_commitment_data(agent_id,
                                    <<"count", found_count, searched_variants>>,
                                    query_id, token_id, IsoFormat(now)), 32),
                         challenge>>),
     public_inputs |-> [query_id |-> query_id, token_id |-> token_id,
                        query_type |-> "VARIANT_SEARCH",
                        searched_count |-> searched_variants,
                        found_count |-> found_count, agent_id |-> agent_id],
     timestamp |-> IsoFormat(now),
     version |-> 1]

\* the ProofVerification verify_proof returns
ProofVerification(valid, proof, now, error) ==
    [valid |-> valid, proof_type |-> proof.proof_type,
     public_inputs |-> proof.public_inputs, verification_time |-> now,
     error |-> error]

\* a verify_proof without the age check
verify_proof_of_any_age(agent_id, proof, now) ==
    IF proof.timestamp.kind # "naive"
    THEN ProofVerification(FALSE, proof, now, "Invalid timestamp")
    ELSE IF \/ proof.commitment.size # PROOF_FIELD_SIZE
            \/ proof.challenge.size # PROOF_FIELD_SIZE
    THEN ProofVerification(FALSE, proof, now, "Invalid proof format")
    ELSE IF proof.response = Hmac(Secret(agent_id),
                                  <<proof.commitment, proof.challenge>>)
    THEN ProofVerification(TRUE, proof, now, "None")
    ELSE ProofVerification(FALSE, proof, now, "Response verification failed")

\* ZKResponder.verify_proof by the engine of agent_id at time now.  A
\* timestamp fromisoformat cannot read raises ValueError, one with a UTC
\* offset raises TypeError in the subtraction; both end in the except branch.
\* a verification for which a proof expires at the limit, not after it
verify_proof_expiring_at_limit(agent_id, proof, now) ==
    IF proof.timestamp.kind # "naive"
    THEN ProofVerification(FALSE, proof, now, "Invalid timestamp")
    ELSE IF now - proof.timestamp.t >= MAX_PROOF_AGE
    THEN ProofVerification(FALSE, proof, now, "Proof has expired")
    ELSE IF \/ proof.commitment.size # PROOF_FIELD_SIZE
            \/ proof.challenge.size # PROOF_FIELD_SIZE
    THEN ProofVerification(FALSE, proof, now, "Invalid proof format")
    ELSE IF proof.response = Hmac(Secret(agent_id),
                                  <<proof.commitment, proof.challenge>>)
    THEN ProofVerification(TRUE, proof, now, "None")
    ELSE ProofVerification(FALSE, proof, now, "Response verification failed")

verify_proof(agent_id, proof, now) ==
    IF proof.timestamp.kind = "junk"
    THEN ProofVerification(FALSE, proof, now, "Invalid isoformat string")
    ELSE IF proof.timestamp.kind = "aware"
    THEN ProofVerification(FALSE, proof, now,
             "can't subtract offset-naive and offset-aware datetimes")
    ELSE IF now - proof.timestamp.t > MAX_PROOF_AGE
    THEN ProofVerification(FALSE, proof, now, "Proof has expired")
    ELSE IF \/ proof.commitment.size # PROOF_FIELD_SIZE
            \/ proof.challenge.size # PROOF_FIELD_SIZE
    THEN ProofVerification(FALSE, proof, now, "Invalid proof format")
    ELSE IF proof.response = Hmac(Secret(agent_id),
                                  <<proof.commitment, proof.challenge>>)
    THEN ProofVerification(TRUE, proof, now, "None")
    ELSE ProofVerification(FALSE, proof, now, "Response verification failed")

\* bytes(32)
ZeroRoot == Digest(<<>>, 32)

\* the for loop of get_merkle_root over one level of even length
RECURSIVE MerkleLevel(_)
MerkleLevel(leaves) ==
    IF leaves = <<>> THEN <<>>
    ELSE <<Digest(<<leaves[1], leaves[2]>>, 32)>>
         \o MerkleLevel(SubSeq(leaves, 3, Len(leaves)))

\* a while loop that hashes the last node of an odd level with nothing
RECURSIVE MerkleReduceUnpadded(_)
MerkleReduceUnpadded(leaves) ==
    IF Len(leaves) = 1 THEN leaves[1]
    ELSE IF Len(leaves) % 2 = 1
    THEN MerkleReduceUnpadded(
             Append(MerkleLevel(SubSeq(leaves, 1, Len(leaves) - 1)),
                    leaves[Len(leaves)]))
    ELSE MerkleReduceUnpadded(MerkleLevel(leaves))

\* the while loop of get_merkle_root
RECURSIVE MerkleReduce(_)
MerkleReduce(leaves) ==
    IF Len(leaves) = 1 THEN leaves[1]
    ELSE IF Len(leaves) % 2 = 1
    THEN MerkleReduce(MerkleLevel(Append(leaves, leaves[Len(leaves)])))
    ELSE MerkleReduce(MerkleLevel(leaves))

\* ProofAggregator.get_merkle_root: the root it returns and self.proofs as
\* the call leaves it (leaves is a list of its own)
get_merkle_root(proofs) ==
    [root |-> IF proofs = <<>> THEN ZeroRoot
              ELSE MerkleReduce([i \in DOMAIN proofs |-> proofs[i].commitment]),
     proofs |-> proofs]

\* ------------------------------------------------------------------------
\* Bounty marketplace (api/routes/bounty.py): values
\* ------------------------------------------------------------------------
RS4988235 == TRAIT_SNPS["lactose_tolerance"][1]

RS1815739 == TRAIT_SNPS["muscle_type"][1]

\* a bounty as the requests read and write it; title, description, category,
\* researcher, reward and expiry are written once and never read by a request
NewBounty(query_type, params, max_responses, response_count) ==
    [query_type |-> query_type, params |-> params,
     max_responses |-> max_responses, response_count |-> response_count,
     is_active |-> TRUE]

SnpParams(rsid, genotype) ==
    [NoParams EXCEPT !.rsid = rsid, !.genotype = genotype]

TraitParams(trait) == [NoParams EXCEPT !.trait = trait]

\* DEMO_BOUNTIES as the module defines it
DemoBounties ==
    "bounty_001" :> NewBounty("SNP_CHECK",
                              SnpParams(RS12913832, <<"G", "G">>), 100, 23)
    @@ "bounty_002" :> NewBounty("SNP_CHECK",
                                 SnpParams(RS4988235, <<"C", "C">>), 200, 87)
    @@ "bounty_003" :> NewBounty("TRAIT_QUERY", TraitParams("muscle_type"),
                                 50, 12)

\* demo_data of get_demo_analyzer
DemoData ==
    << <<WORD.hdr_23andme, WORD.chromosome, WORD.position, WORD.genotype>>,
       <<RS12913832, <<"1", "5">>,
         <<"2", "8", "3", "6", "5", "6", "1", "8">>, <<"G", "G">> >>,
       <<RS4988235, <<"2">>,
         <<"1", "3", "6", "6", "0", "8", "6", "4", "6">>, <<"C", "T">> >>,
       <<RS1815739, <<"1", "1">>,
         <<"6", "6", "5", "6", "0", "6", "2", "4">>, <<"C", "C">> >>,
       << <<>> >> >>

\* the records of the analyzer get_demo_analyzer returns
get_demo_analyzer == parse_file(DemoData)

\* the match check raises: rsid is None and lookup_snp calls rsid.lower()
MatchRaises(bounty) ==
    bounty.query_type = "SNP_CHECK" /\ bounty.params.rsid = NoneStr

\* matches, as the try block of respond_to_bounty computes it
Matches(bounty) ==
    IF bounty.query_type = "SNP_CHECK"
    THEN check_snp_match(get_demo_analyzer, bounty.params.rsid,
                         bounty.params.genotype)[1]
    ELSE IF bounty.query_type = "TRAIT_QUERY"
    THEN predict_trait(get_demo_analyzer, bounty.params.trait) # NoPrediction
    ELSE FALSE

\* a search for a recorded response that compares the wallet as well
existing_of_wallet(responses, request) ==
    SelectSeq(responses,
              LAMBDA r : /\ r.bounty_id = request.bounty_id
                         /\ r.token_id = request.token_id
                         /\ r.wallet_address = request.wallet_address)

\* existing: the recorded responses of the request's bounty and token
existing(responses, request) ==
    SelectSeq(responses,
              LAMBDA r : /\ r.bounty_id = request.bounty_id
                         /\ r.token_id = request.token_id)

\* the record appended to DEMO_RESPONSES; response_id, timestamp and proof
\* are written with it and read by no request that changes the marketplace
ResponseRecord(request) ==
    [bounty_id |-> request.bounty_id, token_id |-> request.token_id,
     wallet_address |-> request.wallet_address]

\* an update that closes the bounty only when the count has passed the limit
UpdateBountyLate(bounty) ==
    [bounty EXCEPT !.response_count = @ + 1,
                   !.is_active =
                       IF bounty.response_count + 1 > bounty.max_responses
                       THEN FALSE ELSE @]

\* "Update bounty": the count goes up by one, and the bounty closes when
\* the count has reached max_responses
UpdateBounty(bounty) ==
    [bounty EXCEPT !.response_count = @ + 1,
                   !.is_active =
                       IF bounty.response_count + 1 >= bounty.max_responses
                       THEN FALSE ELSE @]

\* BountyResponseResult, and the status the request is answered with
ResponseResult(request, status, success, error) ==
    [op |-> "respond_to_bounty", bounty_id |-> request.bounty_id,
     token_id |-> request.token_id,
     wallet_address |-> request.wallet_address,
     status |-> status, success |-> success, error |-> error]

\* ------------------------------------------------------------------------
\* State
\* ------------------------------------------------------------------------
VARIABLES
    crypto,           \* the wallet_crypto the agent was constructed with
    llm,              \* TRUE iff an openai_api_key was given
    ipfs_store,       \* the ciphertext the storage holds for the token
    parsed_data,      \* analyzer._parsed_data
    file_format,      \* analyzer._file_format
    parsed_by,        \* the call whose records parsed_data holds, or 0
    active_sessions,  \* agent._active_sessions (its keys)
    query_log,        \* agent._query_log
    running,          \* the call the event loop is executing, or 0
    calls,            \* the frames of the calls
    payload,          \* an EncryptedPayload in the hands of a caller
    plain,            \* the plaintext it was made from
    enc_key,          \* the key it was made with
    altered,          \* the field of it that was changed since, or "none"
    restored,         \* TRUE iff it went through to_bytes and from_bytes
    dec_key,          \* the key of the last decrypt_data call
    outcome,          \* what the last decrypt_data call returned or raised
    clock,            \* datetime.utcnow(), in seconds
    proof,            \* a ZKProof in the hands of a verifier
    issued,           \* that proof as its engine generated it
    verifications,    \* the verify_proof calls made: engine, proof, time, result
    proofs,           \* ProofAggregator.proofs
    root,             \* the root get_merkle_root returned for proofs, if any
    reply,            \* the last query or request made and what it returned
    DEMO_BOUNTIES,    \* routes.bounty.DEMO_BOUNTIES
    DEMO_RESPONSES    \* routes.bounty.DEMO_RESPONSES

agentVars ==
    <<crypto, llm, ipfs_store, parsed_data, file_format, parsed_by,
      active_sessions, query_log, running, calls>>

cryptoVars ==
    <<payload, plain, enc_key, altered, restored, dec_key, outcome>>

proofVars == <<clock, proof, issued, verifications, proofs, root>>

bountyVars == <<DEMO_BOUNTIES, DEMO_RESPONSES>>

vars == <<agentVars, cryptoVars, proofVars, reply, bountyVars>>

\* what the storage holds: the sample text encrypted under the storage key
StoredCiphertext ==
    to_bytes(encrypt_data(TextBytes(1), StorageKey, TRUE, 3, 5))

IdleCall ==
    [kind |-> "none", pc |-> "idle",
     query |-> [query_type |-> "None", params |-> NoParams], query_id |-> 0,
     session_id |-> NoDigest, encrypted_data |-> NoneBytes,
     decrypted_data |-> NoneText, result |-> NoResult,
     response |-> NoResponse, trace |-> <<>>, teardowns |-> 0,
     failed |-> "none", cancelled |-> FALSE, own_records |-> TRUE]

NoPayload ==
    [version |-> 0, algorithm |-> <<>>, salt |-> <<>>, nonce |-> <<>>,
     ciphertext |-> <<>>, tag |-> <<>>, original_hash |-> <<>>,
     compressed |-> FALSE]

NoOutcome == Raised("None", "None")

NoProof ==
    [proof_type |-> "none", commitment |-> NoDigest, challenge |-> NoDigest,
     response |-> NoDigest, public_inputs |-> [agent_id |-> "none"],
     timestamp |-> IsoFormat(0), version |-> 0]

NoReply == [op |-> "none"]

\* no proof engine, no aggregator and no analyzer query has been used, and
\* the marketplace is as the module was loaded
OthersIdle ==
    /\ DEMO_BOUNTIES = DemoBounties
    /\ DEMO_RESPONSES = <<>>
    /\ clock = 0
    /\ proof = NoProof
    /\ issued = NoProof
    /\ verifications = <<>>
    /\ proofs = <<>>
    /\ root = NoDigest
    /\ reply = NoReply

\* GenomicAgent.__init__
Init ==
    /\ crypto \in {"WalletCrypto", "Injected"}
    /\ llm \in BOOLEAN
    /\ ipfs_store = StoredCiphertext
    /\ parsed_data = EmptyMap
    /\ file_format = "unknown"
    /\ parsed_by = 0
    /\ active_sessions = {}
    /\ query_log = <<>>
    /\ running = 0
    /\ calls = [q \in Calls |-> IdleCall]
    /\ payload = NoPayload
    /\ plain = <<>>
    /\ enc_key = 0
    /\ altered = "none"
    /\ restored = FALSE
    /\ dec_key = 0
    /\ outcome = NoOutcome
    /\ OthersIdle

CanRun(q) == running \in {0, q}

\* datetime.utcnow(), as a logical time: the number of queries logged so far
Now == Len(query_log)

\* query ids are labels: the calls are numbered in the order they start
NextToStart(q) == \A r \in Calls : r < q => calls[r].pc # "idle"

Step(q, name) == Append(calls[q].trace, name)

Returned_(value) == [NoResponse EXCEPT !.status = "RETURNED", !.result = value]

Raised_(error) == [NoResponse EXCEPT !.status = "RAISED", !.error = error]

\* what a call returns early when its fetch or its decryption gave nothing
EarlyReturn(kind, process_query_error, natural_language_error) ==
    IF kind = "process_query" THEN error_response(process_query_error)
    ELSE IF kind = "check_bounty_match" THEN Returned_([value |-> FALSE])
    ELSE Returned_([error |-> natural_language_error])

\* GenomicAgent._fetch_encrypted_data: the placeholder, or None from the
\* except branch; the storage is not consulted
fetch_encrypted_data == {PLACEHOLDER, NoneBytes}

\* GenomicAgent._decrypt_data: crypto.decrypt_file, None on any exception.
\* An injected crypto may answer any text or raise.
agent_decrypt_data(encrypted_data, key) ==
    IF crypto = "WalletCrypto"
    THEN {LET r == decrypt_file(encrypted_data, key)
          IN  IF r.ok THEN DecodeText(r.data) ELSE NoneText}
    ELSE {NoneText} \cup Range(Texts)

\* ------------------------------------------------------------------------
\* GenomicAgent: the steps of process_query, check_bounty_match and
\* natural_language_query
\* ------------------------------------------------------------------------
StartProcessQuery(q) ==
    /\ running = 0
    /\ calls[q].pc = "idle"
    /\ NextToStart(q)
    /\ \E shape \in QueryShapes :
          calls' = [calls EXCEPT ![q] =
                       [IdleCall EXCEPT !.kind = "process_query",
                                        !.query = shape,
                                        !.query_id = q,
                                        !.session_id =
                                            generate_session_id(q, TokenId, Now),
                                        !.pc = "log"]]
    /\ running' = q
    /\ UNCHANGED <<crypto, llm, ipfs_store, parsed_data, file_format, parsed_by,
                   active_sessions, query_log, cryptoVars, proofVars,
                   reply, bountyVars>>

LogQuery(q) ==
    /\ CanRun(q)
    /\ calls[q].pc = "log"
    /\ query_log' = append_log(query_log,
                               log_entry(calls[q].query_id,
                                         calls[q].query.query_type, TokenId,
                                         "0xowner", "0xresearcher", Now))
    /\ calls' = [calls EXCEPT ![q].trace = Step(q, "log"), ![q].pc = "fetch"]
    /\ running' = q
    /\ UNCHANGED <<crypto, llm, ipfs_store, parsed_data, file_format, parsed_by,
                   active_sessions, cryptoVars, proofVars, reply, bountyVars>>

StartCheckBountyMatch(q) ==
    /\ running = 0
    /\ calls[q].pc = "idle"
    /\ NextToStart(q)
    /\ \E shape \in BountyShapes :
          calls' = [calls EXCEPT ![q] =
                       [IdleCall EXCEPT !.kind = "check_bounty_match",
                                        !.query = shape,
                                        !.query_id = q,
                                        !.pc = "fetch"]]
    /\ running' = q
    /\ UNCHANGED <<crypto, llm, ipfs_store, parsed_data, file_format, parsed_by,
                   active_sessions, query_log, cryptoVars, proofVars,
                   reply, bountyVars>>

StartNaturalLanguageQuery(q) ==
    /\ running = 0
    /\ calls[q].pc = "idle"
    /\ NextToStart(q)
    /\ calls' = [calls EXCEPT ![q] =
                    IF llm
                    THEN [IdleCall EXCEPT !.kind = "natural_language_query",
                                          !.query_id = q,
                                          !.pc = "fetch"]
                    ELSE [IdleCall EXCEPT !.kind = "natural_language_query",
                                          !.query_id = q,
                                          !.response =
                                              Returned_([error |-> "LLM not configured"]),
                                          !.pc = "done"]]
    /\ running' = IF llm THEN q ELSE 0
    /\ UNCHANGED <<crypto, llm, ipfs_store, parsed_data, file_format, parsed_by,
                   active_sessions, query_log, cryptoVars, proofVars,
                   reply, bountyVars>>

\* await self._fetch_encrypted_data(...): the call waits for the storage
Fetch(q) ==
    /\ CanRun(q)
    /\ calls[q].pc = "fetch"
    /\ calls' = [calls EXCEPT ![q].trace = Step(q, "fetch"),
                              ![q].pc = "fetching"]
    /\ running' = IF SuspendsAt("fetch") THEN 0 ELSE q
    /\ UNCHANGED <<crypto, llm, ipfs_store, parsed_data, file_format, parsed_by,
                   active_sessions, query_log, cryptoVars, proofVars,
                   reply, bountyVars>>

\* the fetch answers, and the call returns early when it got nothing
FetchReturn(q) ==
    /\ CanRun(q)
    /\ calls[q].pc = "fetching"
    /\ \E data \in fetch_encrypted_data :
          calls' = [calls EXCEPT
                       ![q].encrypted_data = data,
                       ![q].failed = IF data = NoneBytes THEN "fetch" ELSE @,
                       ![q].response =
                           IF AfterFetch(data) = "finally"
                           THEN EarlyReturn(calls[q].kind,
                                            "Failed to fetch data from IPFS",
                                            "Failed to fetch data")
                           ELSE @,
                       ![q].pc = AfterFetch(data)]
    /\ running' = q
    /\ UNCHANGED <<crypto, llm, ipfs_store, parsed_data, file_format, parsed_by,
                   active_sessions, query_log, cryptoVars, proofVars,
                   reply, bountyVars>>

\* self._decrypt_data(...), and the early return when it gave nothing
Decrypt(q) ==
    /\ CanRun(q)
    /\ calls[q].pc = "decrypt"
    /\ \E text \in agent_decrypt_data(calls[q].encrypted_data, StorageKey) :
          calls' = [calls EXCEPT
                       ![q].decrypted_data = text,
                       ![q].trace = Step(q, "decrypt"),
                       ![q].failed = IF text = NoneText THEN "decrypt" ELSE @,
                       ![q].response =
                           IF AfterDecrypt(text) = "finally"
                           THEN EarlyReturn(calls[q].kind,
                                            "Failed to decrypt data",
                                            "Failed to decrypt data")
                           ELSE @,
                       ![q].pc = AfterDecrypt(text)]
    /\ running' = q
    /\ UNCHANGED <<crypto, llm, ipfs_store, parsed_data, file_format, parsed_by,
                   active_sessions, query_log, cryptoVars, proofVars,
                   reply, bountyVars>>

Parse(q) ==
    /\ CanRun(q)
    /\ calls[q].pc = "parse"
    /\ parsed_data' = parse_file(calls[q].decrypted_data)
    /\ file_format' = detect_format(calls[q].decrypted_data)
    /\ parsed_by' = q
    /\ calls' = [calls EXCEPT ![q].trace = Step(q, "parse"),
                              ![q].pc = "analyze"]
    /\ running' = IF SuspendsAt("parse") THEN 0 ELSE q
    /\ UNCHANGED <<crypto, llm, ipfs_store, active_sessions, query_log,
                   cryptoVars, proofVars, reply, bountyVars>>

\* the frame of a call after analyze_for_bounty returned result
Analyzed(c, result) ==
    IF c.kind = "check_bounty_match"
    THEN [c EXCEPT !.result = result,
                   !.response = Returned_([value |-> bounty_match(c.query, result)]),
                   !.pc = "finally"]
    ELSE [c EXCEPT !.result = result, !.pc = "proof"]

\* the frame of a call in whose analysis params['rsid'].lower() raised
AnalysisRaised(c) ==
    IF c.kind = "process_query"
    THEN [c EXCEPT !.failed = "analyze",
                   !.response = error_response("AttributeError"),
                   !.pc = "finally"]
    ELSE [c EXCEPT !.failed = "analyze",
                   !.response = Raised_("AttributeError"),
                   !.pc = "finally"]

\* analyze_for_bounty inside process_query and check_bounty_match
AnalyzeForBounty(q) ==
    /\ CanRun(q)
    /\ calls[q].pc = "analyze"
    /\ calls[q].kind \in {"process_query", "check_bounty_match"}
    /\ calls' = [calls EXCEPT ![q] =
                    IF AnalysisRaises(calls[q].query)
                    THEN AnalysisRaised([calls[q] EXCEPT
                                            !.trace = Step(q, "analyze"),
                                            !.own_records = (parsed_by = q)])
                    ELSE Analyzed([calls[q] EXCEPT
                                      !.trace = Step(q, "analyze"),
                                      !.own_records = (parsed_by = q)],
                                  analyze_for_bounty(parsed_data,
                                                     calls[q].query.query_type,
                                                     calls[q].query.params))]
    /\ running' = q
    /\ UNCHANGED <<crypto, llm, ipfs_store, parsed_data, file_format, parsed_by,
                   active_sessions, query_log, cryptoVars, proofVars,
                   reply, bountyVars>>

\* the predict_trait loop of natural_language_query
PredictTraits(q) ==
    /\ CanRun(q)
    /\ calls[q].pc = "analyze"
    /\ calls[q].kind = "natural_language_query"
    /\ calls' = [calls EXCEPT ![q].trace = Step(q, "analyze"),
                              ![q].own_records = (parsed_by = q),
                              ![q].result = trait_predictions(parsed_data),
                              ![q].pc = "llm"]
    /\ running' = q
    /\ UNCHANGED <<crypto, llm, ipfs_store, parsed_data, file_format, parsed_by,
                   active_sessions, query_log, cryptoVars, proofVars,
                   reply, bountyVars>>

GenerateProof(q) ==
    /\ CanRun(q)
    /\ calls[q].pc = "proof"
    /\ LET c == calls[q]
       IN  calls' = [calls EXCEPT
                        ![q].trace = Step(q, "proof"),
                        ![q].response =
                            [status |-> "COMPLETED",
                             result |-> c.result,
                             zk_proof |-> generate_zk_proof(c.query_id,
                                              c.query.query_type, c.result,
                                              TokenId, Now),
                             response_hash |-> hash_response(c.query_id, c.result),
                             error |-> "None"],
                        ![q].pc = "finally"]
    /\ running' = q
    /\ UNCHANGED <<crypto, llm, ipfs_store, parsed_data, file_format, parsed_by,
                   active_sessions, query_log, cryptoVars, proofVars,
                   reply, bountyVars>>

\* await self.llm.ainvoke(...): the prompt is sent and the call waits
InvokeLLM(q) ==
    /\ CanRun(q)
    /\ calls[q].pc = "llm"
    /\ calls' = [calls EXCEPT ![q].trace = Step(q, "llm"),
                              ![q].pc = "llm_wait"]
    /\ running' = IF SuspendsAt("llm") THEN 0 ELSE q
    /\ UNCHANGED <<crypto, llm, ipfs_store, parsed_data, file_format, parsed_by,
                   active_sessions, query_log, cryptoVars, proofVars,
                   reply, bountyVars>>

\* the language model answers, or its client raises
LlmReturn(q) ==
    /\ CanRun(q)
    /\ calls[q].pc = "llm_wait"
    /\ \E answered \in BOOLEAN :
          calls' = [calls EXCEPT
                       ![q].response =
                           IF answered
                           THEN Returned_([answer |-> "text"])
                           ELSE Raised_("LLMError"),
                       ![q].pc = "finally"]
    /\ running' = q
    /\ UNCHANGED <<crypto, llm, ipfs_store, parsed_data, file_format, parsed_by,
                   active_sessions, query_log, cryptoVars, proofVars,
                   reply, bountyVars>>

\* task.cancel() on a call that waits at an await
Cancel(q) ==
    /\ running = 0
    /\ calls[q].pc \in {"fetching", "llm_wait"}
    /\ calls' = [calls EXCEPT
                    ![q].cancelled = TRUE,
                    ![q].response = [NoResponse EXCEPT !.status = "CANCELLED"],
                    ![q].pc = CancelTarget]
    /\ running' = IF CancelTarget = "done" THEN 0 ELSE q
    /\ UNCHANGED <<crypto, llm, ipfs_store, parsed_data, file_format, parsed_by,
                   active_sessions, query_log, cryptoVars, proofVars,
                   reply, bountyVars>>

\* the finally block
Teardown(q) ==
    /\ CanRun(q)
    /\ calls[q].pc = "finally"
    /\ LET a == clear_data([parsed_data |-> parsed_data,
                            file_format |-> file_format])
       IN  /\ parsed_data' = a.parsed_data
           /\ file_format' = a.file_format
           /\ parsed_by' = IF a.parsed_data = EmptyMap THEN 0 ELSE parsed_by
    /\ active_sessions' = active_sessions \ {calls[q].session_id}
    /\ calls' = [calls EXCEPT ![q].trace = Step(q, "teardown"),
                              ![q].teardowns = @ + 1,
                              ![q].encrypted_data = NoneBytes,
                              ![q].decrypted_data = NoneText,
                              ![q].result = NoResult,
                              ![q].pc = "done"]
    /\ running' = 0
    /\ UNCHANGED <<crypto, llm, ipfs_store, query_log, cryptoVars, proofVars,
                   reply, bountyVars>>

\* get_query_log hands a caller a list, and the caller clears that list
GetQueryLog ==
    /\ running = 0
    /\ query_log # <<>>
    /\ query_log' = log_after_caller_edit(query_log, <<>>)
    /\ UNCHANGED <<crypto, llm, ipfs_store, parsed_data, file_format, parsed_by,
                   active_sessions, running, calls, cryptoVars, proofVars,
                   reply, bountyVars>>

Next ==
    \/ \E q \in Calls : StartProcessQuery(q)
    \/ \E q \in Calls : LogQuery(q)
    \/ \E q \in Calls : StartCheckBountyMatch(q)
    \/ \E q \in Calls : StartNaturalLanguageQuery(q)
    \/ \E q \in Calls : Fetch(q)
    \/ \E q \in Calls : FetchReturn(q)
    \/ \E q \in Calls : Decrypt(q)
    \/ \E q \in Calls : Parse(q)
    \/ \E q \in Calls : AnalyzeForBounty(q)
    \/ \E q \in Calls : PredictTraits(q)
    \/ \E q \in Calls : GenerateProof(q)
    \/ \E q \in Calls : InvokeLLM(q)
    \/ \E q \in Calls : LlmReturn(q)
    \/ \E q \in Calls : Cancel(q)
    \/ \E q \in Calls : Teardown(q)
    \/ GetQueryLog

Spec == Init /\ [][Next]_vars

\* ------------------------------------------------------------------------
\* WalletCrypto: a caller that encrypts, stores, alters and decrypts
\* ------------------------------------------------------------------------
PlainBytes == {0, 31, 139}

RECURSIVE SeqsUpTo(_, _)
SeqsUpTo(S, n) ==
    IF n = 0 THEN {<<>>}
    ELSE SeqsUpTo(S, n - 1)
         \cup {Append(p, b) : p \in {r \in SeqsUpTo(S, n - 1) : Len(r) = n - 1},
                              b \in S}

Plaintexts == SeqsUpTo(PlainBytes, MaxPlainLen)

\* 32-byte keys, each named by a number
Keys == 1..MaxKey

Seeds == {3, 7}

InitCrypto ==
    /\ crypto = "WalletCrypto"
    /\ llm = FALSE
    /\ ipfs_store = <<>>
    /\ parsed_data = EmptyMap
    /\ file_format = "unknown"
    /\ parsed_by = 0
    /\ active_sessions = {}
    /\ query_log = <<>>
    /\ running = 0
    /\ calls = [q \in Calls |-> IdleCall]
    /\ payload = NoPayload
    /\ plain \in Plaintexts
    /\ enc_key \in Keys
    /\ altered = "none"
    /\ restored = FALSE
    /\ dec_key = 0
    /\ outcome = NoOutcome
    /\ OthersIdle

Pending == payload # NoPayload /\ outcome = NoOutcome

EncryptData ==
    /\ payload = NoPayload
    /\ \E compress \in BOOLEAN, nonce_seed \in Seeds :
          payload' = encrypt_data(plain, enc_key, compress, nonce_seed,
                                  nonce_seed + 2)
    /\ UNCHANGED <<agentVars, proofVars, reply, plain, enc_key, altered, restored, dec_key,
                   outcome, bountyVars>>

\* to_bytes, then from_bytes on what it gave
ToFromBytes ==
    /\ Pending
    /\ ~restored
    /\ from_bytes_ok(to_bytes(payload))
    /\ payload' = from_bytes(to_bytes(payload))
    /\ restored' = TRUE
    /\ UNCHANGED <<agentVars, proofVars, reply, plain, enc_key, altered, dec_key,
                   outcome, bountyVars>>

\* one byte of the ciphertext is changed
AlterCiphertext ==
    /\ Pending
    /\ altered = "none"
    /\ \E i \in DOMAIN payload.ciphertext, d \in {1, 128} :
          payload' = [payload EXCEPT !.ciphertext[i] = (@ + d) % 256]
    /\ altered' = "ciphertext"
    /\ UNCHANGED <<agentVars, proofVars, reply, plain, enc_key, restored, dec_key,
                   outcome, bountyVars>>

\* the stored hash is replaced by the hash of another plaintext
ReplaceHash ==
    /\ Pending
    /\ altered = "none"
    /\ \E other \in Plaintexts \ {plain} :
          payload' = [payload EXCEPT !.original_hash = Sha256(other)]
    /\ altered' = "original_hash"
    /\ UNCHANGED <<agentVars, proofVars, reply, plain, enc_key, restored, dec_key,
                   outcome, bountyVars>>

\* the compressed flag is changed; neither the tag nor the hash covers it
FlipCompressed ==
    /\ Pending
    /\ altered = "none"
    /\ payload' = [payload EXCEPT !.compressed = ~@]
    /\ altered' = "compressed"
    /\ UNCHANGED <<agentVars, proofVars, reply, plain, enc_key, restored, dec_key,
                   outcome, bountyVars>>

DecryptData ==
    /\ Pending
    /\ \E key \in Keys :
          /\ dec_key' = key
          /\ outcome' = decrypt_data(payload, key)
    /\ UNCHANGED <<agentVars, proofVars, reply, payload, plain, enc_key, altered,
                   restored, bountyVars>>

NextCrypto ==
    \/ EncryptData
    \/ ToFromBytes
    \/ AlterCiphertext
    \/ ReplaceHash
    \/ FlipCompressed
    \/ DecryptData

SpecCrypto == InitCrypto /\ [][NextCrypto]_vars

\* ------------------------------------------------------------------------
\* ZKResponder and ProofAggregator: engines that issue proofs, a holder that
\* alters one, verifiers, and an aggregator.  The aggregator shares nothing
\* with the engines, so a behaviour exercises the one or the other.
\* ------------------------------------------------------------------------
\* the values secrets.token_bytes(32) can draw
Challenges ==
    {Digest(<<"token_bytes", "1">>, 32), Digest(<<"token_bytes", "2">>, 32)}

\* the time that passes between two operations: the freshness window, or
\* a second more
ClockSteps == {MAX_PROOF_AGE, MAX_PROOF_AGE + 1}

InitProof ==
    /\ crypto = "WalletCrypto"
    /\ llm = FALSE
    /\ ipfs_store = <<>>
    /\ parsed_data = EmptyMap
    /\ file_format = "unknown"
    /\ parsed_by = 0
    /\ active_sessions = {}
    /\ query_log = <<>>
    /\ running = 0
    /\ calls = [q \in Calls |-> IdleCall]
    /\ payload = NoPayload
    /\ plain = <<>>
    /\ enc_key = 0
    /\ altered = "none"
    /\ restored = FALSE
    /\ dec_key = 0
    /\ outcome = NoOutcome
    /\ OthersIdle

Tick ==
    /\ \E d \in ClockSteps :
          /\ clock + d <= MaxClock
          /\ clock' = clock + d
    /\ UNCHANGED <<agentVars, cryptoVars, proof, issued, verifications, proofs,
                   root, reply, bountyVars>>

\* the proofs the three generators make at time now for one query
ProofsOf(agent_id, now, challenge) ==
    {generate_boolean_proof(agent_id, TRUE, "q1", TokenId, "SNP_CHECK", now,
                            challenge),
     generate_boolean_proof(agent_id, FALSE, "q1", TokenId, "SNP_CHECK", now,
                            challenge),
     generate_trait_proof(agent_id, "eye_color", "blue", 85, "q1", TokenId,
                          now, challenge),
     generate_variant_count_proof(agent_id, 2, 1, "q1", TokenId, now,
                                  challenge)}

\* an engine generates a proof and hands it out
IssueProof ==
    /\ proof = NoProof
    /\ proofs = <<>>
    /\ root = NoDigest
    /\ \E agent_id \in AgentIds, challenge \in Challenges :
          \E p \in ProofsOf(agent_id, clock, challenge) :
              /\ proof' = p
              /\ issued' = p
    /\ UNCHANGED <<agentVars, cryptoVars, clock, verifications, proofs, root,
                   reply, bountyVars>>

\* what a holder can make of a proof by assigning one field of it: another
\* timestamp (the present time, a time to come, the same time with a UTC
\* offset, no time at all), other public inputs, a commitment or challenge of another length,
\* another response
Alterations(p, now) ==
    {[p EXCEPT !.timestamp = IsoFormat(now)],
     [p EXCEPT !.timestamp = IsoFormat(now + MAX_PROOF_AGE + 1)],
     [p EXCEPT !.timestamp.kind = "aware"],
     [p EXCEPT !.timestamp = [kind |-> "junk", t |-> 0]],
     [p EXCEPT !.public_inputs.query_id = "q2"],
     [p EXCEPT !.public_inputs =
         IF "result" \in DOMAIN @ THEN [@ EXCEPT !.result = ~@] ELSE @],
     [p EXCEPT !.commitment.size = PROOF_FIELD_SIZE - 1],
     [p EXCEPT !.challenge.size = PROOF_FIELD_SIZE + 1],
     [p EXCEPT !.response = p.challenge]} \ {p}

AlterProof ==
    /\ proof # NoProof
    /\ proof = issued
    /\ proof' \in Alterations(proof, clock)
    /\ UNCHANGED <<agentVars, cryptoVars, clock, issued, verifications, proofs,
                   root, reply, bountyVars>>

VerifyProof ==
    /\ proof # NoProof
    /\ Len(verifications) < MaxVerifications
    /\ \E agent_id \in AgentIds :
          verifications' =
              Append(verifications,
                     [engine |-> agent_id, proof |-> proof, at |-> clock,
                      result |-> verify_proof(agent_id, proof, clock)])
    /\ UNCHANGED <<agentVars, cryptoVars, clock, proof, issued, proofs, root,
                   reply, bountyVars>>

\* ProofAggregator.add_proof of a proof generated now
AddProof ==
    /\ proof = NoProof
    /\ Len(proofs) < MaxProofs
    /\ \E result \in BOOLEAN :
          proofs' = Append(proofs,
                           generate_boolean_proof("0xA", result, "q1", TokenId,
                               "SNP_CHECK", clock,
                               Digest(<<"token_bytes", "1">>, 32)))
    /\ root' = NoDigest
    /\ UNCHANGED <<agentVars, cryptoVars, clock, proof, issued, verifications,
                   reply, bountyVars>>

GetMerkleRoot ==
    /\ proof = NoProof
    /\ root' = get_merkle_root(proofs).root
    /\ proofs' = get_merkle_root(proofs).proofs
    /\ UNCHANGED <<agentVars, cryptoVars, clock, proof, issued, verifications,
                   reply, bountyVars>>

NextProof ==
    \/ Tick
    \/ IssueProof
    \/ AlterProof
    \/ VerifyProof
    \/ AddProof
    \/ GetMerkleRoot

SpecProof == InitProof /\ [][NextProof]_vars

\* ------------------------------------------------------------------------
\* SNPAnalyzer on its own: files are parsed, the records cleared, and the
\* lookup, match and prediction queries asked of the records held.
\* ------------------------------------------------------------------------
RS1800407 == TRAIT_SNPS["eye_color"][2]

\* a 23andMe file with a line for each of the two eye colour markers that
\* is given a genotype
Text23andMe(g1, g2) ==
    << <<WORD.hdr_23andme, WORD.chromosome, WORD.position, WORD.genotype>> >>
    \o (IF g1 = NoneStr THEN <<>>
        ELSE << <<RS12913832, <<"1", "5">>, <<"2", "8">>, g1>> >>)
    \o (IF g2 = NoneStr THEN <<>>
        ELSE << <<RS1800407, <<"1", "5">>, <<"2", "9">>, g2>> >>)

\* a VCF file with one record for rs12913832; the genotype is put together
\* from the REF and ALT columns as they are written
TextVcf(ref, alt, gt) ==
    << <<WORD.hdr_vcf>>,
       << <<"c", "h", "r", "1", "5">>, <<"2", "8">>, RS12913832, ref, alt,
          <<".">>, <<".">>, <<".">>, <<"G", "T">>, gt>> >>

GenomeTexts ==
    {Text23andMe(g1, g2) :
        g1 \in {NoneStr, <<"G", "G">>, <<"G", "A">>, <<"A", "G">>,
                <<"A", "A">>, <<"a", "g">>, <<"C", "C">>},
        g2 \in {NoneStr, <<"T", "T">>, <<"C", "C">>, <<"T", "C">>}}
    \cup {TextVcf(<<"g">>, <<"a">>, <<"0", "/", "1">>),
          TextVcf(<<"g">>, <<"a">>, <<"1", "|", "0">>),
          TextVcf(<<"G">>, <<"A">>, <<"1", "/", "0">>),
          OtherText,
          << <<WORD.hdr_23andme, WORD.chromosome, WORD.position,
               WORD.genotype>>,
             <<Upper(RS12913832), <<"1", "5">>, <<"2", "8">>, <<"g", "g">> >> >>}

I5 == <<"i", "5">>

\* a data line of four columns
Line4(rsid, position, genotype) == <<rsid, <<"1", "5">>, position, genotype>>

\* files with lines the parser cannot use: a position that is no number,
\* too few columns; in a file with a header of each format, and in files
\* without a header
MalformedTexts ==
    {<< <<WORD.hdr_23andme, WORD.chromosome, WORD.position, WORD.genotype>>,
        Line4(RS12913832, <<"x">>, <<"G", "G">>),
        Line4(RS1800407, <<"2", "9">>, <<"T", "T">>),
        <<RS671, <<"1", "2">>, <<"3">> >> >>,
     << <<WORD.hdr_23andme, WORD.chromosome, WORD.position, WORD.genotype>>,
        Line4(RS12913832, <<"2", "8">>, <<"G", "G">>),
        Line4(RS12913832, <<"2", "8", "b">>, <<"A", "A">>) >>,
     << <<WORD.rsID, WORD.chromosome, WORD.position, WORD.allele1,
          WORD.allele2>>,
        <<RS671, <<"1", "2">>, <<"x">>, <<"A">>, <<"G">> >>,
        <<RS12913832, <<"1", "5">>, <<"2", "8">>, <<"G">>, <<"G">> >>,
        <<RS1800407, <<"1", "5">>, <<"2", "9">>, <<"T">> >> >>,
     << <<WORD.hdr_vcf>>,
        << <<"1", "5">>, <<"x">>, RS1800407, <<"C">>, <<"T">>, <<".">>,
           <<".">>, <<".">>, <<"G", "T">>, <<"0", "/", "1">> >>,
        << <<"1", "5">>, <<"2", "8">>, RS12913832, <<"G">>, <<"A">>, <<".">>,
           <<".">>, <<".">>, <<"G", "T">> >>,
        << <<"1", "2">>, <<"3">>, RS671, <<"G">>, <<"A">>, <<".">>, <<".">>,
           <<".">>, <<"G", "T">>, <<"1", "/", "1">> >> >>,
     <<Line4(RS671, <<"x">>, <<"G", "G">>),
       Line4(RS12913832, <<"2", "8">>, <<"A", "G">>)>>,
     <<Line4(RS671, <<"x">>, <<"G", "G">>), Line4(I5, <<"7">>, <<"A", "A">>)>>,
     << <<I5, <<"7">> >>, << <<"?">> >> >>}

QueryRsids == {RS12913832, Upper(RS12913832), RS1800407, RS671}

Targets ==
    {NoneStr, <<>>, <<"A", "G">>, <<"G", "A">>, <<"a", "g">>, <<"G", "a">>,
     <<"G", "G">>, <<"A", "A">>, <<"G">>}

QueryTraits == {"eye_color", "alcohol_flush", "lactose_tolerance", "height"}

Labels == {"x", "y", "z"}

\* lists of (prediction, confidence) pairs with equal and unequal confidences
PredictionLists ==
    UNION {[1..n -> [prediction : Labels, confidence : {65, 90}]] :
              n \in 1..MaxPredictions}

InitAnalyzer == InitProof

\* no query has been recorded since the records last changed: one query is
\* followed for each map
Unasked == reply.op \in {"none", "clear_data", "parse_file"}

\* parse_file(content); the reply holds the count returned and the rsIDs
\* that were held before the call and are not held after it
ParseFile ==
    /\ Unasked
    /\ \E content \in GenomeTexts \cup MalformedTexts :
          /\ parsed_data' = parse_file_on(parsed_data, content)
          /\ file_format' = detect_format(content)
          /\ reply' = [op |-> "parse_file", content |-> content,
                       count |-> Cardinality(DOMAIN parsed_data'),
                       dropped |-> DOMAIN parsed_data \ DOMAIN parsed_data']
    /\ UNCHANGED <<crypto, llm, ipfs_store, parsed_by, active_sessions,
                   query_log, running, calls, cryptoVars,
                   proofVars, bountyVars>>

ClearData ==
    /\ Unasked
    /\ parsed_data # EmptyMap
    /\ LET a == clear_data([parsed_data |-> parsed_data,
                            file_format |-> file_format])
       IN  /\ parsed_data' = a.parsed_data
           /\ file_format' = a.file_format
    /\ reply' = [op |-> "clear_data"]
    /\ UNCHANGED <<crypto, llm, ipfs_store, parsed_by, active_sessions,
                   query_log, running, calls, cryptoVars,
                   proofVars, bountyVars>>

LookupSnp ==
    /\ Unasked
    /\ \E rsid \in QueryRsids :
          reply' = [op |-> "lookup_snp", rsid |-> rsid,
                    snp_result |-> lookup_snp(parsed_data, rsid)]
    /\ UNCHANGED <<agentVars, cryptoVars, proofVars, bountyVars>>

CheckSnpMatch ==
    /\ Unasked
    /\ \E rsid \in QueryRsids, target_genotype \in Targets :
          reply' = [op |-> "check_snp_match", rsid |-> rsid,
                    target_genotype |-> target_genotype,
                    match |-> check_snp_match(parsed_data, rsid,
                                              target_genotype)]
    /\ UNCHANGED <<agentVars, cryptoVars, proofVars, bountyVars>>

PredictTrait ==
    /\ Unasked
    /\ \E trait \in QueryTraits :
          reply' = [op |-> "predict_trait", trait |-> trait,
                    prediction |-> predict_trait(parsed_data, trait)]
    /\ UNCHANGED <<agentVars, cryptoVars, proofVars, bountyVars>>

TraitQuery ==
    /\ Unasked
    /\ \E trait \in QueryTraits :
          reply' = [op |-> "TRAIT_QUERY", trait |-> trait,
                    response |-> analyze_for_bounty(parsed_data, "TRAIT_QUERY",
                                     [NoParams EXCEPT !.trait = trait])]
    /\ UNCHANGED <<agentVars, cryptoVars, proofVars, bountyVars>>

SnpCheck ==
    /\ Unasked
    /\ \E rsid \in QueryRsids, genotype \in Targets :
          reply' = [op |-> "SNP_CHECK", rsid |-> rsid,
                    target_genotype |-> genotype,
                    response |-> analyze_for_bounty(parsed_data, "SNP_CHECK",
                                     [NoParams EXCEPT !.rsid = rsid,
                                                      !.genotype = genotype])]
    /\ UNCHANGED <<agentVars, cryptoVars, proofVars, bountyVars>>

\* the rsids lists of a batch search: empty, with an rsID twice, with an rsID
\* in two spellings, with rsIDs held and not held
RsidLists ==
    {<<>>, <<RS671>>, <<RS12913832, RS12913832>>,
     <<Upper(RS12913832), RS12913832>>, <<RS12913832, RS1800407, RS671>>}

VariantSearch ==
    /\ Unasked
    /\ \E rsids \in RsidLists :
          reply' = [op |-> "VARIANT_SEARCH", rsids |-> rsids,
                    response |-> analyze_for_bounty(parsed_data,
                                     "VARIANT_SEARCH",
                                     [NoParams EXCEPT !.rsids = rsids])]
    /\ UNCHANGED <<agentVars, cryptoVars, proofVars, bountyVars>>

\* the sort and the choice of predictions[0] in predict_trait, on a list of
\* collected pairs; the step reads no records
SortPredictions ==
    /\ Unasked
    /\ parsed_data = EmptyMap
    /\ \E predictions \in PredictionLists :
          reply' = [op |-> "sort", predictions |-> predictions,
                    best |-> BestOf("trait", SortByConfidence(predictions),
                                    <<>>)]
    /\ UNCHANGED <<agentVars, cryptoVars, proofVars, bountyVars>>

NextAnalyzer ==
    \/ ParseFile
    \/ ClearData
    \/ LookupSnp
    \/ CheckSnpMatch
    \/ PredictTrait
    \/ TraitQuery
    \/ SnpCheck
    \/ VariantSearch
    \/ SortPredictions

SpecAnalyzer == InitAnalyzer /\ [][NextAnalyzer]_vars

\* ------------------------------------------------------------------------
\* Bounty marketplace: create_bounty and respond_to_bounty requests.  Both
\* handlers are coroutines without an await, so the event loop runs each
\* request from its first statement to its return.
\* ------------------------------------------------------------------------
Tokens == 1..MaxTokens

Wallets == {"0xA", "0xB"}

\* the ids uuid4 can give a created bounty
CreatedIds == {"bounty_" \o ToString(i) : i \in 1..MaxCreated}

\* the params of the bounties created: one the demo genome matches, one it
\* does not match, a trait it has, a batch search, and one without an rsid
CreatedQueries ==
    {<<"SNP_CHECK", SnpParams(RS12913832, <<"G", "G">>)>>,
     <<"SNP_CHECK", SnpParams(RS4988235, <<"C", "C">>)>>,
     <<"TRAIT_QUERY", TraitParams("muscle_type")>>,
     <<"VARIANT_SEARCH", [NoParams EXCEPT !.rsids = <<RS12913832>>]>>,
     <<"SNP_CHECK", SnpParams(NoneStr, <<"G", "G">>)>>}

\* max_responses of a CreateBountyRequest: gt=0
CreatedMax == 1..2

InitBounty == InitProof

\* create_bounty; the id is one no bounty has
CreateBounty ==
    /\ \E bounty_id \in CreatedIds \ DOMAIN DEMO_BOUNTIES :
       \E query \in CreatedQueries, max_responses \in CreatedMax :
          /\ DEMO_BOUNTIES' =
                 (bounty_id :> NewBounty(query[1], query[2], max_responses, 0))
                 @@ DEMO_BOUNTIES
          /\ reply' = [op |-> "create_bounty", bounty_id |-> bounty_id]
    /\ UNCHANGED <<agentVars, cryptoVars, proofVars, DEMO_RESPONSES>>

\* the requests respond_to_bounty is sent
Requests ==
    [bounty_id : DOMAIN DemoBounties \cup CreatedIds \cup {"bounty_none"},
     token_id : Tokens, wallet_address : Wallets]

\* respond_to_bounty that ends before the response is recorded
Refused(request, status, error) ==
    /\ reply' = ResponseResult(request, status, FALSE, error)
    /\ UNCHANGED bountyVars

\* respond_to_bounty from "Generate ZK proof" on
Recorded(request) ==
    /\ DEMO_RESPONSES' = Append(DEMO_RESPONSES, ResponseRecord(request))
    /\ DEMO_BOUNTIES' =
           [DEMO_BOUNTIES EXCEPT ![request.bounty_id] = UpdateBounty(@)]
    /\ reply' = ResponseResult(request, 200, TRUE, "None")

RespondToBounty ==
    /\ Len(DEMO_RESPONSES) < MaxRecorded
    /\ \E request \in Requests :
          IF request.bounty_id \notin DOMAIN DEMO_BOUNTIES
          THEN Refused(request, 404, "Bounty not found")
          ELSE IF ~DEMO_BOUNTIES[request.bounty_id].is_active
          THEN Refused(request, 200, "Bounty is no longer active")
          ELSE IF DEMO_BOUNTIES[request.bounty_id].response_count
                      >= DEMO_BOUNTIES[request.bounty_id].max_responses
          THEN Refused(request, 200, "Bounty has reached maximum responses")
          ELSE IF existing(DEMO_RESPONSES, request) # <<>>
          THEN Refused(request, 200,
                       "You have already responded to this bounty")
          ELSE IF MatchRaises(DEMO_BOUNTIES[request.bounty_id])
          THEN Refused(request, 500, "AttributeError")
          ELSE IF ~Matches(DEMO_BOUNTIES[request.bounty_id])
          THEN Refused(request, 200,
                       "Your genome does not match the bounty criteria")
          ELSE Recorded(request)
    /\ UNCHANGED <<agentVars, cryptoVars, proofVars>>

NextBounty ==
    \/ CreateBounty
    \/ RespondToBounty

SpecBounty == InitBounty /\ [][NextBounty]_vars

\* ------------------------------------------------------------------------
\* Properties of the query session
\* ------------------------------------------------------------------------
Ends(q) == calls[q].pc # "done" /\ calls'[q].pc = "done"

Ended(q) == calls[q].pc = "done"

IsProcessQuery(q) == calls[q].kind = "process_query"

StepsOf(q) == Range(calls[q].trace)

\* C1: whenever a process_query call ends, on whichever path, the parsed
\* map is empty, the format is unknown, the call's session id is not an
\* active session, and the clearing step has run exactly once in the call.
C1_TeardownOnEveryExit ==
    [][\A q \in Calls :
          IsProcessQuery(q) /\ Ends(q) =>
              /\ parsed_data' = EmptyMap
              /\ file_format' = "unknown"
              /\ calls[q].session_id \notin active_sessions'
              /\ calls'[q].teardowns = 1]_vars

C1_Witness ==
    \E q, r \in Calls :
        /\ IsProcessQuery(q) /\ Ended(q)
        /\ calls[q].response.status = "COMPLETED"
        /\ IsProcessQuery(r) /\ Ended(r)
        /\ calls[r].response.status = "FAILED"
        /\ calls[r].failed = "analyze"

\* C2: a call cancelled while it waits at an await has run its teardown
\* when it has ended: no cancelled call has ended while the records it
\* parsed are still held.
C2_CancelledCallsTearDown ==
    \A q \in Calls :
        Ended(q) /\ calls[q].cancelled =>
            /\ calls[q].teardowns = 1
            /\ parsed_by # q

C2_Witness ==
    \E q \in Calls :
        /\ calls[q].kind = "natural_language_query"
        /\ calls[q].cancelled
        /\ "analyze" \in StepsOf(q)
        /\ Ended(q)

Pipeline == <<"log", "fetch", "decrypt", "parse", "analyze", "proof">>

\* the steps of a call, its teardown aside
PipelineSteps(q) ==
    SelectSeq(calls[q].trace, LAMBDA step : step # "teardown")

\* C3: the steps of a process_query call are a prefix of log, fetch,
\* decrypt, parse, analyze, proof; the step that failed is the last one of
\* them, the call is then FAILED and at its teardown; an ended call's last
\* step is its one teardown.
C3_OrderedShortCircuit ==
    \A q \in Calls :
        IsProcessQuery(q) =>
            /\ PipelineSteps(q) = SubSeq(Pipeline, 1, Len(PipelineSteps(q)))
            /\ calls[q].failed # "none" =>
                   /\ PipelineSteps(q)[Len(PipelineSteps(q))] = calls[q].failed
                   /\ calls[q].pc \in {"finally", "done"}
                   /\ calls[q].response.status = "FAILED"
            /\ Ended(q) =>
                   /\ calls[q].trace = Append(PipelineSteps(q), "teardown")
                   /\ calls[q].teardowns = 1

C3_Witness ==
    \E q \in Calls :
        /\ IsProcessQuery(q)
        /\ calls[q].failed = "decrypt"
        /\ calls[q].trace = <<"log", "fetch", "decrypt", "teardown">>
        /\ calls[q].response.status = "FAILED"

\* C4: whichever way concurrent calls interleave, a call that has run its
\* analysis ran it on the records that same call parsed.
C4_AnalysisOnOwnRecords ==
    \A q \in Calls : "analyze" \in StepsOf(q) => calls[q].own_records

C4_Witness ==
    \E q, r \in Calls :
        /\ calls[q].pc = "llm_wait"
        /\ IsProcessQuery(r)
        /\ calls[r].pc = "proof"
        /\ calls[r].own_records

Suspended(q) == running # q /\ calls[q].pc \in {"fetching", "llm_wait"}

Active(q) == calls[q].pc \notin {"idle", "done"}

\* C5: while a query waits at an await and another query is under way, the
\* waiting query's parsed records are not in the analyzer the two share.
C5_NoSharedRecords ==
    \A q, r \in Calls :
        q # r /\ Suspended(q) /\ Active(r) => parsed_by # q

C5_Witness ==
    \E q, r \in Calls :
        q # r /\ calls[q].pc = "llm_wait" /\ calls[r].pc = "finally"

LOG_FIELDS ==
    {"query_id", "query_type", "token_id", "owner_address", "requester",
     "timestamp"}

EntriesOf(q) == {i \in DOMAIN query_log : query_log[i].query_id = q}

\* every process_query call past its logging step has one entry, no other
\* call has any, and an entry has the six audit fields and no other
LogComplete ==
    /\ \A q \in Calls :
          Cardinality(EntriesOf(q)) =
              IF IsProcessQuery(q) /\ calls[q].pc \notin {"idle", "log"}
              THEN 1 ELSE 0
    /\ \A i \in DOMAIN query_log : DOMAIN query_log[i] = LOG_FIELDS

\* C6: each process_query call has appended exactly one entry before its
\* fetch, whatever its outcome; an entry holds the query id, query type,
\* token id, owner, requester and time only; no step shortens the log or
\* changes an entry of it.
C6_AuditLog ==
    [][/\ LogComplete'
       /\ Len(query_log') >= Len(query_log)
       /\ SubSeq(query_log', 1, Len(query_log)) = query_log]_vars

C6_Witness ==
    /\ Len(query_log) = MaxCalls
    /\ \E q \in Calls :
          /\ IsProcessQuery(q) /\ Ended(q)
          /\ calls[q].failed = "fetch"

\* the variant check of rs12913832 with no target genotype
EyeColourCheck ==
    [query_type |-> "SNP_CHECK", params |-> [NoParams EXCEPT !.rsid = RS12913832]]

\* the stored ciphertext is the encryption under the key of a text that
\* holds rs12913832 with genotype GG
StoredSampleUnderKey ==
    /\ decrypt_file(ipfs_store, StorageKey).ok
    /\ check_snp_match(
           parse_file(DecodeText(decrypt_file(ipfs_store, StorageKey).data)),
           RS12913832, <<"G", "G">>)[1]

\* C7: with the sample stored under the key, a process_query session with
\* the wallet encryption layer and that key, checking rs12913832 with no
\* target, ends COMPLETED with found = true and leaves the map empty.
C7_EndToEnd ==
    \A q \in Calls :
        /\ IsProcessQuery(q) /\ Ended(q)
        /\ ~calls[q].cancelled
        /\ calls[q].failed # "fetch"
        /\ calls[q].query = EyeColourCheck
        /\ crypto = "WalletCrypto"
        /\ StoredSampleUnderKey
        => /\ calls[q].response.status = "COMPLETED"
           /\ "found" \in DOMAIN calls[q].response.result
           /\ calls[q].response.result.found
           /\ parsed_by # q

C7_Witness ==
    \E q \in Calls :
        /\ IsProcessQuery(q) /\ Ended(q)
        /\ calls[q].query = EyeColourCheck
        /\ crypto = "WalletCrypto"
        /\ "decrypt" \in StepsOf(q)
        /\ StoredSampleUnderKey

\* a query of no known kind, or without the parameter its kind requires
InputError(query) ==
    \/ query.query_type \notin {"SNP_CHECK", "TRAIT_QUERY", "VARIANT_SEARCH"}
    \/ query.query_type = "SNP_CHECK" /\ ~Truthy(query.params.rsid)
    \/ query.query_type = "TRAIT_QUERY" /\ query.params.trait \in {"None", ""}

\* C8: a process_query call whose query is an input error ends FAILED.
C8_InputErrorsFail ==
    \A q \in Calls :
        /\ IsProcessQuery(q) /\ Ended(q)
        /\ ~calls[q].cancelled
        /\ InputError(calls[q].query)
        => calls[q].response.status = "FAILED"

C8_Witness ==
    \E q \in Calls :
        /\ IsProcessQuery(q) /\ Ended(q)
        /\ InputError(calls[q].query)
        /\ "analyze" \in StepsOf(q)
        /\ IsError(calls[q].response.result)

\* ------------------------------------------------------------------------
\* Properties of the encryption layer
\* ------------------------------------------------------------------------
\* C9: decrypting, under the key it was made with, a payload that
\* encrypt_data returned gives back exactly the plaintext, compressed or
\* not, also when the payload went through to_bytes and from_bytes.
C9_RoundTrip ==
    outcome # NoOutcome /\ altered = "none" /\ dec_key = enc_key
        => outcome = Returned(plain)

C9_Witness ==
    /\ outcome = Returned(plain)
    /\ plain # <<>>
    /\ payload.compressed
    /\ restored

\* C10: decrypt_data raises, and returns no bytes, when the ciphertext was
\* changed, the stored hash was replaced or the key is not the one the
\* payload was made with.
C10_AlteredNeverDecrypts ==
    /\ outcome # NoOutcome
    /\ altered \in {"ciphertext", "original_hash"} \/ dec_key # enc_key
    => ~outcome.ok

C10_Witness ==
    /\ altered = "original_hash"
    /\ dec_key = enc_key
    /\ outcome = Raised("ValueError", "Decryption failed")

\* C11: every failure of decrypt_data is one and the same error outcome,
\* the one a failed tag check gives: same kind, same message.
C11_OneIntegrityError ==
    outcome # NoOutcome /\ ~outcome.ok
        => outcome = Raised("ValueError", "Decryption failed")

C11_Witness ==
    /\ altered = "compressed"
    /\ dec_key = enc_key
    /\ outcome = Raised("ValueError", "Data integrity check failed")

\* ------------------------------------------------------------------------
\* Properties of proof verification
\* ------------------------------------------------------------------------
\* a verification made more than MAX_PROOF_AGE seconds after the time the
\* proof's timestamp names
OfOldProof(v) ==
    /\ v.proof.timestamp.kind = "naive"
    /\ v.at - v.proof.timestamp.t > MAX_PROOF_AGE

ResponseMatches(v) ==
    v.proof.response =
        Hmac(Secret(v.engine), <<v.proof.commitment, v.proof.challenge>>)

Malformed(p) ==
    \/ p.commitment.size # PROOF_FIELD_SIZE
    \/ p.challenge.size # PROOF_FIELD_SIZE

\* C13: verify_proof checks the format before the freshness: a proof with
\* a commitment or challenge of another length than 32 bytes gets the
\* invalid-format outcome at any age, and only a well-formed proof is
\* reported expired.
C13_FormatBeforeFreshness ==
    \A i \in DOMAIN verifications :
        verifications[i].proof.timestamp.kind = "naive"
            => /\ Malformed(verifications[i].proof)
                    => verifications[i].result.error = "Invalid proof format"
               /\ verifications[i].result.error = "Proof has expired"
                    => ~Malformed(verifications[i].proof)

\* a malformed proof older than the window was verified, and reported expired
C13_Witness ==
    \E i \in DOMAIN verifications :
        /\ Malformed(verifications[i].proof)
        /\ OfOldProof(verifications[i])
        /\ verifications[i].result.error = "Proof has expired"

\* a verification of a well-formed proof inside the freshness window
OfFreshProof(v) ==
    /\ v.proof.timestamp.kind = "naive"
    /\ v.at - v.proof.timestamp.t <= MAX_PROOF_AGE
    /\ ~Malformed(v.proof)

InputsChanged(p) ==
    /\ issued # NoProof
    /\ p.commitment = issued.commitment
    /\ p.challenge = issued.challenge
    /\ p.response = issued.response
    /\ \/ p.public_inputs # issued.public_inputs
       \/ p.timestamp # issued.timestamp

\* C15: a generated proof whose public inputs or timestamp were changed
\* afterwards, commitment, challenge and response kept, is never reported
\* valid; an expired proof does not verify again with a rewritten timestamp.
C15_TamperingDetected ==
    \A i \in DOMAIN verifications :
        InputsChanged(verifications[i].proof) => ~verifications[i].result.valid

\* the proof was reported expired, its timestamp was rewritten, and the same
\* engine then reported it valid
C15_Witness ==
    \E i, j \in DOMAIN verifications :
        /\ i < j
        /\ verifications[i].proof = issued
        /\ verifications[i].result.error = "Proof has expired"
        /\ verifications[j].engine = verifications[i].engine
        /\ verifications[j].proof = [issued EXCEPT !.timestamp = IsoFormat(clock)]
        /\ verifications[j].result.valid

\* the outcome of a verification: VERIFIED, or the error it ended with
Outcome(v) == <<v.result.valid, v.result.error>>

\* C16: the outcome of a proof is terminal: once verify_proof has returned
\* an outcome for a proof, every later verify_proof of the same unmodified
\* proof by the same engine returns the same outcome.
C16_OutcomesTerminal ==
    \A i, j \in DOMAIN verifications :
        /\ verifications[i].engine = verifications[j].engine
        /\ verifications[i].proof = verifications[j].proof
        => Outcome(verifications[i]) = Outcome(verifications[j])

\* the generated proof, untouched, was VERIFIED by its engine and later
\* reported expired by the same engine
C16_Witness ==
    \E i, j \in DOMAIN verifications :
        /\ i < j
        /\ verifications[i].engine = verifications[j].engine
        /\ verifications[i].proof = issued
        /\ verifications[j].proof = issued
        /\ verifications[i].result.valid
        /\ verifications[j].result.error = "Proof has expired"

\* ------------------------------------------------------------------------
\* Properties of the proof aggregator
\* ------------------------------------------------------------------------
\* the reference tree over n leaves, by position: level 0 holds the leaves,
\* level k has half as many nodes as level k - 1, rounded up, and node i of
\* level k hashes nodes 2i - 1 and 2i of the level below, the last node
\* standing in for a missing right neighbour
RECURSIVE LevelSize(_, _)
LevelSize(n, k) == IF k = 0 THEN n ELSE (LevelSize(n, k - 1) + 1) \div 2

RECURSIVE Node(_, _, _)
Node(leaves, k, i) ==
    IF k = 0 THEN leaves[i]
    ELSE Digest(<<Node(leaves, k - 1, 2 * i - 1),
                  Node(leaves, k - 1,
                       IF 2 * i <= LevelSize(Len(leaves), k - 1)
                       THEN 2 * i ELSE 2 * i - 1)>>, 32)

Height(n) == CHOOSE k \in 0..n : LevelSize(n, k) = 1 /\ (k > 0 => LevelSize(n, k - 1) > 1)

ReferenceRoot(ps) ==
    IF ps = <<>> THEN ZeroRoot
    ELSE Node([i \in DOMAIN ps |-> ps[i].commitment], Height(Len(ps)), 1)

\* C17: the root get_merkle_root returns is the reference construction over
\* the ordered commitments (all-zero for no proof, the commitment itself for
\* one, pairwise hashes with the last node of an odd level used twice
\* otherwise), and computing it leaves the proof sequence as it was.
C17_MerkleRoot ==
    [][root' # NoDigest => root' = ReferenceRoot(proofs) /\ proofs' = proofs]_vars

\* the root of three proofs was computed: the third commitment is hashed
\* with itself
C17_Witness ==
    /\ Len(proofs) = 3
    /\ root = Digest(<<Digest(<<proofs[1].commitment, proofs[2].commitment>>, 32),
                       Digest(<<proofs[3].commitment, proofs[3].commitment>>, 32)>>,
                     32)

\* ------------------------------------------------------------------------
\* Properties of lookup, match and prediction
\* ------------------------------------------------------------------------
\* how often the letter c occurs in s, whatever its case
Occurrences(c, s) == Cardinality({i \in DOMAIN s : Upper(s)[i] = c})

\* t and g hold the same alleles, in any order and any case
SameAlleles(t, g) ==
    \A c \in Range(Upper(t)) \cup Range(Upper(g)) :
        Occurrences(c, t) = Occurrences(c, g)

\* C18: for an rsID held in the map, check_snp_match with a non-empty
\* target reports a match exactly when target and stored genotype hold the
\* same alleles, whatever their order and case, and returns the stored
\* genotype; with no target it reports the presence.
C18_MatchIgnoresOrderAndCase ==
    /\ reply.op = "check_snp_match"
    /\ Lower(reply.rsid) \in DOMAIN parsed_data
    => /\ reply.match[2] = parsed_data[Lower(reply.rsid)].genotype
       /\ reply.match[1] =
            IF reply.target_genotype \in {NoneStr, <<>>} THEN TRUE
            ELSE SameAlleles(reply.target_genotype,
                             parsed_data[Lower(reply.rsid)].genotype)

\* the genotype stored is GA or ga, and the target AG was reported a match
C18_Witness ==
    /\ reply.op = "check_snp_match"
    /\ reply.target_genotype = <<"A", "G">>
    /\ reply.match \in {<<TRUE, <<"G", "A">> >>, <<TRUE, <<"g", "a">> >>}

\* the positions in the trait's supporting list whose rsID is held in the
\* map m with a genotype the catalogue has a variant for
Contributing(m, trait) ==
    {i \in DOMAIN TRAIT_SNPS[trait] :
        /\ TRAIT_SNPS[trait][i] \in DOMAIN m
        /\ TRAIT_SNPS[trait][i] \in DOMAIN SNP_DATABASE
        /\ m[TRAIT_SNPS[trait][i]].genotype
              \in DOMAIN SNP_DATABASE[TRAIT_SNPS[trait][i]].variants}

\* the catalogued (prediction, confidence) pair of position i
PairAt(m, trait, i) ==
    SNP_DATABASE[TRAIT_SNPS[trait][i]].variants[
        m[TRAIT_SNPS[trait][i]].genotype]

\* the first of the positions with the highest confidence
FirstHighest(pairs) ==
    CHOOSE i \in DOMAIN pairs :
        \A j \in DOMAIN pairs :
            \/ pairs[j].confidence < pairs[i].confidence
            \/ pairs[j].confidence = pairs[i].confidence /\ i <= j

LabelOf(pair) == <<pair.prediction, pair.confidence>>

\* C19: predict_trait collects one pair from every supporting rsID held in
\* the map with a catalogued genotype and returns the pair of the highest
\* confidence; of several pairs with the highest confidence the sort keeps
\* the first collected at the head.
C19_HighestConfidenceFirst ==
    /\ /\ reply.op = "predict_trait"
       /\ reply.trait \in DOMAIN TRAIT_SNPS
       /\ Contributing(parsed_data, reply.trait) # {}
       => /\ reply.prediction.found
          /\ LabelOf(reply.prediction) =
               LabelOf(PairAt(parsed_data, reply.trait,
                   FirstHighest([i \in Contributing(parsed_data, reply.trait)
                                   |-> PairAt(parsed_data, reply.trait, i)])))
    /\ reply.op = "sort"
       => LabelOf(reply.best) =
             LabelOf(reply.predictions[FirstHighest(reply.predictions)])

\* both eye colour markers are held, with confidences 90 and 65, and the
\* prediction is the label of the 90
C19_Witness ==
    /\ reply.op = "predict_trait"
    /\ reply.trait = "eye_color"
    /\ Contributing(parsed_data, "eye_color") = {1, 2}
    /\ PairAt(parsed_data, "eye_color", 1).confidence = 90
    /\ PairAt(parsed_data, "eye_color", 2).confidence = 65
    /\ LabelOf(reply.prediction) = <<"brown", 90>>

\* the rsID is not held in the map
Absent(rsid) == Lower(rsid) \notin DOMAIN parsed_data

\* the trait is not in the trait table, or none of its rsIDs is held
Unsupported(trait) ==
    \/ trait \notin DOMAIN TRAIT_SNPS
    \/ \A i \in DOMAIN TRAIT_SNPS[trait] : Absent(TRAIT_SNPS[trait][i])

\* C20: for an rsID that is not in the map, lookup_snp answers found=false
\* with an empty genotype and check_snp_match answers (false, none); for a
\* trait that is unknown or has no supporting rsID in the map, predict_trait
\* gives no prediction and a TRAIT_QUERY answers found=false without a
\* prediction label and without an error.
C20_NotFoundNeverGuessed ==
    /\ reply.op = "lookup_snp" /\ Absent(reply.rsid)
       => /\ ~reply.snp_result.found
          /\ reply.snp_result.genotype = <<>>
          /\ reply.snp_result.interpretation = "None"
    /\ reply.op = "check_snp_match" /\ Absent(reply.rsid)
       => reply.match = <<FALSE, NoneStr>>
    /\ reply.op = "predict_trait" /\ Unsupported(reply.trait)
       => reply.prediction = NoPrediction
    /\ reply.op = "TRAIT_QUERY" /\ Unsupported(reply.trait)
       => /\ ~reply.response.found
          /\ DOMAIN reply.response = {"query_type", "trait", "found"}

\* records are held, none of them for the marker of the known trait asked
\* for, and the TRAIT_QUERY answered found=false
C20_Witness ==
    /\ parsed_data # EmptyMap
    /\ reply.op = "TRAIT_QUERY"
    /\ reply.trait = "alcohol_flush"
    /\ ~reply.response.found

C22_KeysLowerGenotypesUpper ==
    \A r \in DOMAIN parsed_data :
        /\ Lower(r) = r
        /\ Upper(parsed_data[r].genotype) = parsed_data[r].genotype

\* a VCF file with REF and ALT in lower case was parsed, and the genotype is
\* held as written
C22_Witness ==
    /\ file_format = "vcf"
    /\ RS12913832 \in DOMAIN parsed_data
    /\ parsed_data[RS12913832].genotype = <<"g", "a">>

\* the columns a data line of each format needs, and the column of the
\* position
ColumnsNeeded == "23andme" :> 4 @@ "ancestry" :> 5 @@ "vcf" :> 10

PositionColumn == "23andme" :> 3 @@ "ancestry" :> 3 @@ "vcf" :> 2

\* a data line (no comment, no blank line, no header row) with fewer
\* columns than the format needs or with a position that is no number
MalformedLine(fmt, line) ==
    /\ fmt \in DOMAIN ColumnsNeeded
    /\ ~StartsWith(Head(line), <<"#">>)
    /\ ~IsBlankLine(line)
    /\ HeaderFormat(line) = "unknown"
    /\ \/ Len(line) < ColumnsNeeded[fmt]
       \/ ~IsInt(line[PositionColumn[fmt]])

\* the content without the lines that are malformed for its format
WithoutMalformed(content) ==
    SelectSeq(content,
              LAMBDA line : ~MalformedLine(detect_format(content), line))

\* C23: a malformed data line gives no record and does not end the parsing:
\* the map parse_file leaves is the one the other lines of the input give
\* under the format detected for the input.
C23_MalformedLinesSkipped ==
    reply.op = "parse_file"
    => parsed_data =
          ParseLines(file_format,
                     StripSplitLines(WithoutMalformed(reply.content)),
                     EmptyMap)

\* C23 as stated: the map is the one parse_file gives for the input with
\* its malformed lines removed.
C23_MalformedLinesRemovable ==
    reply.op = "parse_file"
    => parsed_data = parse_file(WithoutMalformed(reply.content))

\* a file with malformed lines before and after a good line was parsed, and
\* the good lines are held
C23_Witness ==
    /\ reply.op = "parse_file"
    /\ Len(WithoutMalformed(reply.content)) + 2 = Len(reply.content)
    /\ MalformedLine(file_format, reply.content[Len(reply.content)])
    /\ reply.count > 0

\* C24: parse_file replaces the map held: after the call the map is the one
\* a new analyzer gets from the same content, whatever was held before; it
\* is empty when the format is unknown; the count returned is its size.
C24_ParseReplacesMap ==
    reply.op = "parse_file"
    => /\ parsed_data = parse_file(reply.content)
       /\ file_format = "unknown" => parsed_data = EmptyMap
       /\ reply.count = Cardinality(DOMAIN parsed_data)

\* a record held from an earlier file is gone after a file that has other
\* records was parsed
C24_Witness ==
    /\ reply.op = "parse_file"
    /\ reply.dropped # {}
    /\ reply.count > 0
    /\ reply.dropped \cap DOMAIN parse_file(reply.content) = {}

\* C25: for a SNP_CHECK with a target genotype on an rsID held in the map,
\* found, matches and has_variant are equal, and equal to the comparison of
\* target and stored genotype without regard to order and case.
C25_SnpCheckFieldsAgree ==
    /\ reply.op = "SNP_CHECK"
    /\ reply.target_genotype \notin {NoneStr, <<>>}
    /\ ~Absent(reply.rsid)
    => /\ reply.response.found =
            SameAlleles(reply.target_genotype,
                        parsed_data[Lower(reply.rsid)].genotype)
       /\ reply.response.matches = reply.response.found
       /\ reply.response.has_variant = reply.response.found

\* the genotype stored is GA and the target AG: found, but no match
C25_Witness ==
    /\ reply.op = "SNP_CHECK"
    /\ reply.target_genotype = <<"A", "G">>
    /\ ~Absent(reply.rsid)
    /\ parsed_data[Lower(reply.rsid)].genotype = <<"G", "A">>
    /\ reply.response.found
    /\ ~reply.response.matches

\* the genotype with its alleles in the other order
Swapped(g) == [i \in DOMAIN g |-> g[Len(g) + 1 - i]]

\* the map with every genotype swapped
SwappedMap(m) == [r \in DOMAIN m |-> [m[r] EXCEPT !.genotype = Swapped(@)]]

\* C26: the catalogue is read with the genotype taken as unordered: the
\* interpretation lookup_snp gives and the prediction predict_trait gives
\* are the same for a genotype and for that genotype with its alleles
\* swapped.
C26_CatalogueUnordered ==
    /\ reply.op = "lookup_snp" /\ ~Absent(reply.rsid)
       => reply.snp_result.interpretation =
             lookup_snp(SwappedMap(parsed_data), reply.rsid).interpretation
    /\ reply.op = "predict_trait"
       => /\ reply.prediction.found =
               predict_trait(SwappedMap(parsed_data), reply.trait).found
          /\ LabelOf(reply.prediction) =
               LabelOf(predict_trait(SwappedMap(parsed_data), reply.trait))

\* the file gives GA for rs12913832, the catalogue has the key AG, and the
\* lookup has no interpretation
C26_Witness ==
    /\ reply.op = "lookup_snp"
    /\ ~Absent(reply.rsid)
    /\ parsed_data[Lower(reply.rsid)].genotype = <<"G", "A">>
    /\ <<"A", "G">> \in DOMAIN SNP_DATABASE[Lower(reply.rsid)].variants
    /\ reply.snp_result.interpretation = "None"

\* ------------------------------------------------------------------------
\* Properties of the responses of process_query
\* ------------------------------------------------------------------------
\* C27: a response process_query returns has status COMPLETED or FAILED; a
\* COMPLETED response has a result, a proof of 32 bytes, a response hash
\* and no error; a FAILED response has no result, no proof, an empty
\* response hash and an error.
C27_ResponseShape ==
    \A q \in Calls :
        IsProcessQuery(q) /\ Ended(q) /\ ~calls[q].cancelled
        => /\ calls[q].response.status \in {"COMPLETED", "FAILED"}
           /\ calls[q].response.status = "COMPLETED"
              => /\ calls[q].response.result # NoResult
                 /\ calls[q].response.zk_proof.size = 32
                 /\ calls[q].response.response_hash.size > 0
                 /\ calls[q].response.error = "None"
           /\ calls[q].response.status = "FAILED"
              => /\ calls[q].response.result = NoResult
                 /\ calls[q].response.zk_proof = NoDigest
                 /\ calls[q].response.response_hash = NoDigest
                 /\ calls[q].response.error # "None"

\* one process_query has returned COMPLETED and another FAILED
C27_Witness ==
    \E q1, q2 \in Calls :
        /\ IsProcessQuery(q1) /\ Ended(q1)
        /\ IsProcessQuery(q2) /\ Ended(q2)
        /\ calls[q1].response.status = "COMPLETED"
        /\ calls[q2].response.status = "FAILED"

\* ------------------------------------------------------------------------
\* Properties of the freshness window
\* ------------------------------------------------------------------------
Age(v) == v.at - v.proof.timestamp.t

RespondedTo(b) == reply.op = "respond_to_bounty" /\ reply.bounty_id = b

\* the recorded responses of bounty b
ResponsesOf(responses, b) == SelectSeq(responses, LAMBDA r : r.bounty_id = b)

BountyInRange ==
    \A b \in DOMAIN DEMO_BOUNTIES :
        /\ DEMO_BOUNTIES[b].response_count <= DEMO_BOUNTIES[b].max_responses
        /\ DEMO_BOUNTIES[b].is_active =>
               DEMO_BOUNTIES[b].response_count < DEMO_BOUNTIES[b].max_responses

\* what a request does to a bounty there is: the count stays or goes up by
\* one, it goes up exactly when the request is a respond for this bounty that
\* succeeds, and a closed bounty stays as it is with the responses it has
BountyStep(b) ==
    /\ b \in DOMAIN DEMO_BOUNTIES'
    /\ DEMO_BOUNTIES'[b].max_responses = DEMO_BOUNTIES[b].max_responses
    /\ DEMO_BOUNTIES'[b].response_count \in
           {DEMO_BOUNTIES[b].response_count,
            DEMO_BOUNTIES[b].response_count + 1}
    /\ (DEMO_BOUNTIES'[b].response_count = DEMO_BOUNTIES[b].response_count + 1)
           <=> (RespondedTo(b)' /\ reply'.success)
    /\ ~DEMO_BOUNTIES[b].is_active =>
           /\ DEMO_BOUNTIES'[b] = DEMO_BOUNTIES[b]
           /\ ResponsesOf(DEMO_RESPONSES', b) = ResponsesOf(DEMO_RESPONSES, b)
           /\ RespondedTo(b)' => ~reply'.success

\* C29: under any sequence of create_bounty and respond_to_bounty requests
\* every bounty has response_count <= max_responses, and an active bounty has
\* response_count < max_responses; response_count changes only by +1 and only
\* on a respond that succeeds; a bounty that is inactive stays inactive and
\* gets no further response.
C29_CountWithinLimit ==
    []BountyInRange /\ [][\A b \in DOMAIN DEMO_BOUNTIES : BountyStep(b)]_vars

\* a created bounty took responses up to its limit and closed, and a
\* respond sent to it afterwards was refused
C29_Witness ==
    \E b \in DOMAIN DEMO_BOUNTIES \ DOMAIN DemoBounties :
        /\ ~DEMO_BOUNTIES[b].is_active
        /\ DEMO_BOUNTIES[b].response_count = DEMO_BOUNTIES[b].max_responses
        /\ DEMO_BOUNTIES[b].max_responses = 2
        /\ RespondedTo(b)
        /\ reply.error = "Bounty is no longer active"

\* response_count of bounty b when it came to be: the demo value, or 0
InitialCount(b) ==
    IF b \in DOMAIN DemoBounties THEN DemoBounties[b].response_count ELSE 0

OnePerPair ==
    \A i, j \in DOMAIN DEMO_RESPONSES :
        /\ DEMO_RESPONSES[i].bounty_id = DEMO_RESPONSES[j].bounty_id
        /\ DEMO_RESPONSES[i].token_id = DEMO_RESPONSES[j].token_id
        => i = j

RecordedIsCounted ==
    \A b \in DOMAIN DEMO_BOUNTIES :
        Len(ResponsesOf(DEMO_RESPONSES, b)) =
            DEMO_BOUNTIES[b].response_count - InitialCount(b)

\* the request of this step is a respond for a bounty and token that have a
\* recorded response already
SecondRespond ==
    /\ reply'.op = "respond_to_bounty"
    /\ \E i \in DOMAIN DEMO_RESPONSES :
          /\ DEMO_RESPONSES[i].bounty_id = reply'.bounty_id
          /\ DEMO_RESPONSES[i].token_id = reply'.token_id

\* C30: for any sequence of respond_to_bounty requests (each runs without
\* giving up the event loop) DEMO_RESPONSES holds at most one entry per
\* (bounty_id, token_id); a respond for a pair that has an entry fails and
\* leaves DEMO_RESPONSES and the bounty's response_count and is_active as
\* they were; and the entries of a bounty are as many as its response_count
\* has gone up.
C30_OneResponsePerToken ==
    /\ [](OnePerPair /\ RecordedIsCounted)
    /\ [][SecondRespond => ~reply'.success /\ UNCHANGED bountyVars]_vars

\* a token that has a recorded response for a bounty still open sent a
\* second respond from another wallet, and was refused as a duplicate
C30_Witness ==
    /\ reply.op = "respond_to_bounty"
    /\ reply.error = "You have already responded to this bounty"
    /\ \E i \in DOMAIN DEMO_RESPONSES :
          /\ DEMO_RESPONSES[i].bounty_id = reply.bounty_id
          /\ DEMO_RESPONSES[i].token_id = reply.token_id
          /\ DEMO_RESPONSES[i].wallet_address # reply.wallet_address
    /\ Len(DEMO_RESPONSES) >= 2

====
